---- MODULE Spec2Model ----
(***************************************************************************)
(* Model of src/main.py: the encode batch worker (EncodingWorker.run), its *)
(* constant-quality estimator (EncodingWorker.estimate_rf_value) and the   *)
(* GUI handlers that start batches and enable or disable the buttons       *)
(* (MediaEncoderGUI).                                                      *)
(*                                                                         *)
(* Conventions                                                             *)
(*  - A Python value that may be None is a sequence: <<>> is None and      *)
(*    <<v>> is v.                                                          *)
(*  - Text fields are strings of a small vocabulary; int() and float() are *)
(*    tables over that vocabulary, so a text that does not parse is a      *)
(*    value of the model.                                                  *)
(*  - RF values are kept as integers scaled by RfScale = 2^max_iterations, *)
(*    which is exact for every midpoint the bisection can compute; the     *)
(*    rounded return value is an integer number of hundredths.             *)
(*  - Float arithmetic is modelled by exact rational arithmetic; the       *)
(*    vocabularies keep away from values where IEEE rounding could change  *)
(*    a comparison.                                                        *)
(***************************************************************************)
EXTENDS Integers, Sequences, FiniteSets, TLC

None == <<>>
Some(v) == <<v>>

(***************************************************************************)
(* Bounds and vocabularies                                                 *)
(***************************************************************************)
\* Longest media list of a batch.
MaxFiles == 3
\* Longest media list of a batch whose sample encodes return arbitrary sizes.
MaxEstFiles == 1
\* Most delete signals queued for the GUI thread and not yet handled.
MaxPending == 1
\* Longest media list of the window.
MaxGuiFiles == 2
\* Most encode (or check) worker threads alive, or finished and not yet
\* handled.
MaxWorkers == 2
\* Most add-media worker threads alive, or finished and not yet handled.
MaxAddWorkers == 1

\* 0-based audio track indices a file can have.
TrackIds == {0, 1}
\* Texts of the target-size field that float() accepts.
TargetTexts == {"1", "inf"}
\* Contents of the audio-bitrate field, split at the commas (<<>>: empty).
AudioBitrateTexts == {<<>>, <<"128">>, <<"128", "128">>, <<"abc">>}
\* Durations (seconds) the inspector can report.
Durations == {0, 10, 100}
\* Total audio bitrates (kbps) the inspector can report for a source.
SourceAudioTotals == {0, 192}
\* Sizes (bytes) an encoded sample can have when sample encodes are arbitrary.
SampleSizes == {10000, 45000, 800000}
\* Bytes per RF unit below 51 of the deterministic sample encoder.
StubComplexities == {0, 1800}

\* Texts of the target-size field of the window.
GuiTargetTexts == {"", "1"}
\* Contents of the audio-bitrate field of the window.
GuiAudioBitrateTexts == {<<>>, <<"128">>, <<"128", "128">>}
\* Audio encoders of the combo while no preset is selected.
GuiAudioEncoders == {"copy", "av_aac"}
\* Numbers of audio tracks of a file that is added.
TrackCounts == {1, 2}
\* Arguments of single calls of calculate_video_bitrate.
CalcTargetTexts == {"1", "0", "-1", "inf", "nan", "abc", ""}
CalcDurations == {-1, 0, 10, 44, 66, 100}
CalcAudioValues == {<<>>, <<"128">>, <<"192">>, <<"128", "128">>, <<"abc">>}

\* Lines of transcoder output, character by character: "42%", "42.50%",
\* "42 %", "42.50 %", "x, 42.50 %", "7 % 42.50 %", ".5 %", "100 %",
\* "142.50 %", "42. %", "x 1 of 1", "".
OutputLines ==
    {<<"4", "2", "%">>,
     <<"4", "2", ".", "5", "0", "%">>,
     <<"4", "2", " ", "%">>,
     <<"4", "2", ".", "5", "0", " ", "%">>,
     <<"x", ",", " ", "4", "2", ".", "5", "0", " ", "%">>,
     <<"7", " ", "%", " ", "4", "2", ".", "5", "0", " ", "%">>,
     <<".", "5", " ", "%">>,
     <<"1", "0", "0", " ", "%">>,
     <<"1", "4", "2", ".", "5", "0", " ", "%">>,
     <<"4", "2", ".", " ", "%">>,
     <<"x", " ", "1", " ", "o", "f", " ", "1">>,
     <<>>}

AudioEncoders == {"copy", "av_aac", "None"}
DeleteOptions == {"Auto", "Ask", "No"}
TempNames == {"temp_sample.mkv", "temp_encoded_sample.mkv"}

(***************************************************************************)
(* Conversions                                                             *)
(***************************************************************************)
\* int(text): the integer, or None where Python raises ValueError.
ParseInt(text) ==
    CASE text = "0" -> Some(0)
      [] text = "128" -> Some(128)
      [] text = "192" -> Some(192)
      [] OTHER -> None

\* float(text): a finite value, an infinity or NaN (fin FALSE), or None
\* where Python raises ValueError.
ParseFloat(text) ==
    CASE text = "0" -> Some([fin |-> TRUE, v |-> 0])
      [] text = "1" -> Some([fin |-> TRUE, v |-> 1])
      [] text = "10" -> Some([fin |-> TRUE, v |-> 10])
      [] text = "-1" -> Some([fin |-> TRUE, v |-> -1])
      [] text = "nan" -> Some([fin |-> FALSE, v |-> 0])
      [] text = "128" -> Some([fin |-> TRUE, v |-> 128])
      [] text = "192" -> Some([fin |-> TRUE, v |-> 192])
      [] text = "inf" -> Some([fin |-> FALSE, v |-> 0])
      [] OTHER -> None

\* str(n) of a non-negative integer.
StrOfInt(n) ==
    CASE n = 0 -> "0"
      [] n = 1 -> "1"
      [] n = 2 -> "2"
      [] n = 128 -> "128"
      [] n = 192 -> "192"

\* int(x) of a float x = n / d with d > 0: truncation toward zero.
TruncDiv(n, d) == IF n >= 0 THEN n \div d ELSE -((-n) \div d)

RECURSIVE SumSeq(_)
SumSeq(s) == IF s = <<>> THEN 0 ELSE Head(s) + SumSeq(Tail(s))

(***************************************************************************)
(* EncodingWorker.calculate_video_bitrate                                  *)
(***************************************************************************)
\* calculate_video_bitrate with a megabyte of 1000 * 1000 bytes.
calculate_video_bitrate_decimal(duration, target_size_mb, audio_bitrate_values) ==
    LET t == ParseFloat(target_size_mb) IN
    IF t = None THEN [kind |-> "none", v |-> 1]
    ELSE IF duration = None \/ duration[1] <= 0 THEN [kind |-> "none", v |-> 2]
    ELSE IF audio_bitrate_values = <<>> THEN [kind |-> "none", v |-> 4]
    ELSE IF \E i \in 1..Len(audio_bitrate_values) :
                ParseFloat(audio_bitrate_values[i]) = None
         THEN [kind |-> "none", v |-> 3]
    ELSE IF ~t[1].fin THEN [kind |-> "raise", v |-> 0]
    ELSE LET total_audio_bitrate ==
                 SumSeq([i \in 1..Len(audio_bitrate_values) |->
                            ParseFloat(audio_bitrate_values[i])[1].v])
             num == t[1].v * 8 * 1000 * 1000
                      - total_audio_bitrate * 1000 * duration[1]
         IN [kind |-> "ok", v |-> TruncDiv(num, 1000 * duration[1])]

\* The result is [kind, v]: kind "ok" with the value v (kbps), "none" with
\* the message number v of the return None taken, or "raise" when an
\* exception leaves the function (int() of an infinity or of NaN).
calculate_video_bitrate(duration, target_size_mb, audio_bitrate_values) ==
    LET t == ParseFloat(target_size_mb) IN
    IF t = None THEN [kind |-> "none", v |-> 1]
    ELSE IF duration = None \/ duration[1] <= 0 THEN [kind |-> "none", v |-> 2]
    ELSE IF audio_bitrate_values = <<>> THEN [kind |-> "none", v |-> 4]
    ELSE IF \E i \in 1..Len(audio_bitrate_values) :
                ParseFloat(audio_bitrate_values[i]) = None
         THEN [kind |-> "none", v |-> 3]
    ELSE IF ~t[1].fin THEN [kind |-> "raise", v |-> 0]
    ELSE LET total_audio_bitrate ==
                 SumSeq([i \in 1..Len(audio_bitrate_values) |->
                            ParseFloat(audio_bitrate_values[i])[1].v])
             \* video_bitrate_kbps
             \*   = (target_size_bits / duration - audio_bitrate_bps) / 1000
             num == t[1].v * 8 * 1024 * 1024
                      - total_audio_bitrate * 1000 * duration[1]
         IN [kind |-> "ok", v |-> TruncDiv(num, 1000 * duration[1])]

(***************************************************************************)
(* EncodingWorker.run: audio bitrate of one file (lines 305-341)           *)
(***************************************************************************)
\* [bitrate_values[i] for i in selected_tracks if i < len(bitrate_values)]
SelectedBitrateValues(bitrate_values, selected_tracks) ==
    LET kept == SelectSeq(selected_tracks, LAMBDA i : i < Len(bitrate_values))
    IN [k \in 1..Len(kept) |-> bitrate_values[kept[k] + 1]]

\* AudioBitrateOf without the length comparison of line 333.
AudioBitrateOfUnchecked(enc, audio_bitrate, track_lists, i, source_total) ==
    IF enc = "copy"
    THEN IF source_total = None
         THEN [kind |-> "audio_bitrate_error", values |-> <<>>]
         ELSE [kind |-> "ok", values |-> <<StrOfInt(source_total[1])>>]
    ELSE IF audio_bitrate # <<>>
    THEN IF \E k \in 1..Len(audio_bitrate) : ParseInt(audio_bitrate[k]) = None
         THEN [kind |-> "invalid_audio_bitrate", values |-> <<>>]
         ELSE IF i > Len(track_lists)
         THEN [kind |-> "raise", values |-> <<>>]
         ELSE [kind |-> "ok",
               values |-> SelectedBitrateValues(audio_bitrate, track_lists[i])]
    ELSE [kind |-> "no_audio_bitrate", values |-> <<>>]

\* The result is [kind, values]: kind "ok" with selected_bitrate_values, or
\* the failure that skips the file. track_lists is
\* self.selected_audio_tracks, i the enumerate index of the file (idx), and
\* source_total what get_audio_bitrate returned.
AudioBitrateOf(enc, audio_bitrate, track_lists, i, source_total) ==
    IF enc = "copy"
    THEN IF source_total = None
         THEN [kind |-> "audio_bitrate_error", values |-> <<>>]
         ELSE [kind |-> "ok", values |-> <<StrOfInt(source_total[1])>>]
    ELSE IF audio_bitrate # <<>>
    THEN IF \E k \in 1..Len(audio_bitrate) : ParseInt(audio_bitrate[k]) = None
         THEN [kind |-> "invalid_audio_bitrate", values |-> <<>>]
         ELSE IF i > Len(track_lists)
         THEN [kind |-> "raise", values |-> <<>>]
         ELSE LET selected_bitrate_values ==
                      SelectedBitrateValues(audio_bitrate, track_lists[i])
              IN IF Len(selected_bitrate_values) # Len(track_lists[i])
                 THEN [kind |-> "mismatch", values |-> <<>>]
                 ELSE [kind |-> "ok", values |-> selected_bitrate_values]
    ELSE [kind |-> "no_audio_bitrate", values |-> <<>>]

(***************************************************************************)
(* EncodingWorker.estimate_rf_value: arithmetic                            *)
(***************************************************************************)
max_iterations == 10
RfScale == 2 ^ max_iterations
lower_rf_init == 18
upper_rf_init == 40

\* (lower_rf + upper_rf) / 2, on scaled values.
Midpoint(lower_rf, upper_rf) == (lower_rf + upper_rf) \div 2

\* round(rf_value, 2) in hundredths: the nearest, a tie to the even one.
Round2(rf) ==
    LET n == rf * 100
        q == n \div RfScale
        r == n % RfScale
    IN IF 2 * r < RfScale THEN q
       ELSE IF 2 * r > RfScale THEN q + 1
       ELSE IF q % 2 = 0 THEN q ELSE q + 1

\* estimated_total_size_bytes: the sample covers 5% of the duration, so
\* duration / sample_duration is 20; the audio adds kbps * 1000 / 8 * duration.
EstimatedTotalBytes(sample_size_bytes, audio_kbps, duration) ==
    sample_size_bytes * 20 + 125 * audio_kbps * duration

\* estimated_total_size_mb against acceptable_upper_size = target * 1.05
TooLarge(target, total_bytes) == 20 * total_bytes > 21 * target * 1024 * 1024
\* ... and against acceptable_lower_size = target * 0.95
TooSmall(target, total_bytes) == 20 * total_bytes < 19 * target * 1024 * 1024

\* Size of the sample a deterministic encoder of complexity c writes at rf.
StubSize(c, rf) == (c * (51 * RfScale - rf)) \div RfScale

\* Deterministic encoders whose sample shrinks by slope bytes per unit of
\* quality, with a further drop of jump bytes on each side of quality 25.
Stub25Curves ==
    <<[slope |-> 1024, jump |-> 0], [slope |-> 8192, jump |-> 0],
      [slope |-> 24576, jump |-> 0], [slope |-> 1024, jump |-> 27000],
      [slope |-> 24576, jump |-> 27000]>>

\* The sample size from which lines 754-761 estimate exactly the target:
\* sample * 20 + audio bytes = target_size_mb * 1024 * 1024.
Stub25SizeAt25(target, audio_kbps, duration) ==
    (target * 1024 * 1024 - 125 * audio_kbps * duration) \div 20

\* Size of the sample such an encoder writes at rf.
Stub25Size(curve, rf, target, audio_kbps, duration) ==
    LET at25 == Stub25SizeAt25(target, audio_kbps, duration)
        away == (curve.slope * (25 * RfScale - rf)) \div RfScale
    IN IF rf < 25 * RfScale THEN at25 + curve.jump + away
       ELSE IF rf > 25 * RfScale THEN at25 - curve.jump + away
       ELSE at25

(***************************************************************************)
(* State                                                                   *)
(***************************************************************************)
VARIABLES
    \* EncodingWorker
    media_files,        \* self.media_files: the paths, as file numbers
    job,                \* the fields __init__ stores and run only reads
    pc,                 \* where run is
    idx,                \* enumerate index of the file in work (0: none yet)
    processed_files,    \* self.processed_files
    cur,                \* run's locals for the file in work
    est,                \* estimate_rf_value's locals
    cmd,                \* the transcoder invocation in flight, or None
    last,               \* the latest message of run about a file
    overall_progress,       \* the latest value emitted on overall_progress
    current_file_progress,  \* ... and on current_file_progress, or None
    delete_file_signal, \* every delete_file_signal emitted, in order
    \* outside the worker
    destFiles,          \* temporary files present in the destination folder
    handled,            \* number of delete signals the GUI slot has handled
    removed,            \* source files deleted from disk
    sampleEncoder,      \* "stub", "stub25": deterministic sample sizes;
                        \* "free": any
    \* single calls
    calc,               \* a call of calculate_video_bitrate and its outcome
    parse,              \* a call of parse_handbrake_output and its emissions
    build,              \* the two transcoder commands built for one file
    \* CheckMediaWorker
    check,              \* run's position, locals and reports
    \* MediaEncoderGUI
    gui_media_files,           \* self.media_files of the window
    target_size_input,         \* text of the target-size field
    audio_bitrate_input,       \* text of the audio-bitrate field, split
    audio_encoder_combo,       \* current text of the audio-encoder combo
    dest_valid,                \* the destination field names a directory
    start_encoding_btn,        \* isEnabled() of the three buttons
    check_media_btn,
    clear_media_btn,
    encoding_in_progress,      \* self.encoding_in_progress
    encoding_workers,          \* EncodingWorker threads in run
    encoding_finished_queued,  \* their finished signals not yet handled
    check_media_workers,       \* CheckMediaWorker threads in run
    check_finished_queued,     \* their finished signals not yet handled
    add_media_workers,         \* AddMediaWorker threads in run
    add_finished_queued        \* their finished signals not yet handled

guiVars == <<gui_media_files, target_size_input, audio_bitrate_input,
             audio_encoder_combo, dest_valid, start_encoding_btn,
             check_media_btn, clear_media_btn, encoding_in_progress,
             encoding_workers, encoding_finished_queued, check_media_workers,
             check_finished_queued, add_media_workers, add_finished_queued>>
progressVars == <<overall_progress, current_file_progress>>
workerVars == <<media_files, job, pc, idx, processed_files, cur, est, cmd,
                last, progressVars, delete_file_signal>>
callVars == <<calc, parse, check, build>>
vars == <<media_files, job, pc, idx, processed_files, cur, est, cmd, last,
          progressVars,
          delete_file_signal, destFiles, handled, removed, sampleEncoder,
          callVars, guiVars>>

(***************************************************************************)
(* Initial states                                                          *)
(***************************************************************************)
\* media['selected_audio_tracks'] of a file with two audio tracks: the
\* 0-based indices of the first track, or of both.
TrackSelections == {<<0>>, <<0, 1>>}

\* The worker fields start_encoding can pass: the audio-bitrate field is
\* cleared and disabled while the audio encoder is 'copy' or 'None'.
Jobs ==
    {j \in [target_size_mb : TargetTexts,
            audio_bitrate : AudioBitrateTexts,
            selected_audio_encoder : AudioEncoders,
            variable_bitrate : BOOLEAN,
            delete_source_files : DeleteOptions] :
        j.selected_audio_encoder \in {"copy", "None"} => j.audio_bitrate = <<>>}

NoCur == [file_path |-> 0, duration |-> None, values |-> <<>>,
          video_bitrate |-> 0,
          estimated_rf_value |-> None]
NoEst == [duration |-> None, c |-> 0, lower_rf |-> 0, upper_rf |-> 0,
          rf_value |-> 0, iteration |-> 0, kind |-> "", ret |-> None]
NoLast == [file |-> 0, kind |-> "", rc |-> 0]
NoCheck == [n |-> 0, idx |-> 0, pc |-> "idle", needs_update |-> FALSE,
            attempts |-> 0, calls |-> 0, runs |-> 0, inspected |-> "",
            reports |-> <<>>]
NoParse == [line |-> <<>>, file |-> 0, processed_files |-> 0,
            total_files |-> 1, called |-> FALSE, overall_progress |-> None,
            current_file_progress |-> None]
\* No command built: the worker fields and the file of the call are unset.
NoBuild == [preset_file |-> None, preset_name |-> None,
            selected_encoder |-> "", rf_value |-> "", video_bitrate |-> "",
            selected_audio_encoder |-> "", audio_bitrate |-> <<>>,
            selected_tracks |-> <<>>, variable_bitrate |-> FALSE,
            multi_pass |-> FALSE, file_path |-> <<>>,
            destination_folder |-> "", sample_command |-> None,
            command |-> None]
NoCalc == [duration |-> None, target_size_mb |-> "",
           audio_bitrate_values |-> <<>>, result |-> None]

InitWorker(n, settings, tracks) ==
    /\ media_files = [i \in 1..n |-> i]
    /\ job = [target_size_mb |-> settings.target_size_mb,
              audio_bitrate |-> settings.audio_bitrate,
              selected_audio_encoder |-> settings.selected_audio_encoder,
              variable_bitrate |-> settings.variable_bitrate,
              delete_source_files |-> settings.delete_source_files,
              selected_audio_tracks |-> tracks,
              total_files |-> n]
    /\ pc = "loop"
    /\ idx = 0
    /\ processed_files = 0
    /\ cur = NoCur
    /\ est = NoEst
    /\ cmd = None
    /\ last = NoLast
    /\ overall_progress = None
    /\ current_file_progress = None
    /\ delete_file_signal = <<>>
    /\ handled = 0
    /\ removed = {}

\* The window while the batch of a worker is in flight, as start_encoding
\* leaves it (lines 2405-2412).
GuiDuringBatch ==
    /\ gui_media_files = <<>>
    /\ target_size_input = ""
    /\ audio_bitrate_input = <<>>
    /\ audio_encoder_combo = "copy"
    /\ dest_valid = FALSE
    /\ start_encoding_btn = FALSE
    /\ check_media_btn = FALSE
    /\ clear_media_btn = FALSE
    /\ encoding_in_progress = TRUE
    /\ encoding_workers = 1
    /\ encoding_finished_queued = 0
    /\ check_media_workers = 0
    /\ check_finished_queued = 0
    /\ add_media_workers = 0
    /\ add_finished_queued = 0

\* A batch as start_encoding hands it to the worker; sample encodes are
\* deterministic.
Init ==
    /\ \E n \in 0..MaxFiles, settings \in Jobs :
         \E tracks \in [1..n -> TrackSelections] :
            InitWorker(n, settings, tracks)
    /\ destFiles = {}
    /\ sampleEncoder = "stub"
    /\ calc = NoCalc
    /\ parse = NoParse
    /\ check = NoCheck
    /\ build = NoBuild
    /\ GuiDuringBatch

\* A constant-quality batch whose sample encodes return arbitrary sizes.
InitEst ==
    /\ \E n \in 1..MaxEstFiles, settings \in Jobs :
         /\ settings.variable_bitrate
         /\ settings.target_size_mb = "1"
         /\ settings.delete_source_files = "No"
         /\ settings.selected_audio_encoder = "av_aac"
         /\ settings.audio_bitrate = <<"128">>
         /\ InitWorker(n, settings, [i \in 1..n |-> <<0>>])
    /\ destFiles \in SUBSET TempNames
    /\ sampleEncoder = "free"
    /\ calc = NoCalc
    /\ parse = NoParse
    /\ check = NoCheck
    /\ build = NoBuild
    /\ GuiDuringBatch

(***************************************************************************)
(* EncodingWorker.run                                                      *)
(***************************************************************************)
\* update_overall_progress without the files already processed.
update_overall_progressOfFileOnly(processed, percent, total_files) ==
    Some(percent \div total_files)

\* update_overall_progress (lines 530-535): the value emitted,
\* int((processed + current_file_progress / 100) / total_files * 100).
update_overall_progress(processed, percent, total_files) ==
    Some((processed * 100 + percent) \div total_files)

\* What get_duration and get_audio_bitrate can return.
DurationResults == {None} \cup {Some(d) : d \in Durations}
AudioTotalResults == {None} \cup {Some(a) : a \in SourceAudioTotals}

\* SkipFile with `return` in the place of `continue`.
SkipFileReturns(i, kind) ==
    /\ pc' = "finished"
    /\ last' = [file |-> i, kind |-> kind, rc |-> 0]
    /\ overall_progress' =
          update_overall_progress(processed_files, 0, job.total_files)
    /\ current_file_progress' = Some(0)
    /\ cur' = NoCur
    /\ est' = NoEst
    /\ UNCHANGED <<processed_files, cmd, delete_file_signal>>

\* A failure message followed by `continue`: the file is given up and the
\* loop goes on (lines 301-303, 310-312, 324-326, 334-336, 339-341, 346-348,
\* 367-369).
SkipFile(i, kind) ==
    /\ pc' = "loop"
    /\ last' = [file |-> i, kind |-> kind, rc |-> 0]
    /\ overall_progress' =
          update_overall_progress(processed_files, 0, job.total_files)
    /\ current_file_progress' = Some(0)
    /\ cur' = NoCur
    /\ est' = NoEst
    /\ UNCHANGED <<processed_files, cmd, delete_file_signal>>

\* An exception that nothing in run catches ends the thread: no later file,
\* no finished signal.
Crash(i) ==
    /\ pc' = "crashed"
    /\ last' = [file |-> i, kind |-> "raise", rc |-> 0]
    /\ current_file_progress' = Some(0)
    /\ UNCHANGED overall_progress
    /\ UNCHANGED <<processed_files, cur, est, cmd, delete_file_signal>>

\* How lines 298-348 end for file i, given what the inspector returned.
PrepareOutcome(i, duration, source_total) ==
    LET audio == AudioBitrateOf(job.selected_audio_encoder, job.audio_bitrate,
                                job.selected_audio_tracks, i, source_total)
        bitrate == calculate_video_bitrate(duration, job.target_size_mb,
                                           audio.values)
        kind == IF duration = None THEN "duration_error"
                ELSE IF audio.kind # "ok" THEN audio.kind
                ELSE IF bitrate.kind = "raise" THEN "raise"
                ELSE IF bitrate.kind = "none" THEN "bitrate_failed"
                ELSE "ok"
    IN [kind |-> kind, audio |-> audio, bitrate |-> bitrate]

\* The loop takes the next file and works it up to the encoding summary
\* (lines 287-396): duration, audio bitrate, video bitrate; then the
\* estimator in constant-quality mode, the transcoder otherwise (the second
\* calculate_video_bitrate call of line 381 repeats the first).
PrepareFile ==
    /\ pc = "loop"
    /\ idx < Len(media_files)
    /\ \E duration \in DurationResults, source_total \in AudioTotalResults :
         LET i == idx + 1
             o == PrepareOutcome(i, duration, source_total)
         IN /\ idx' = i
            /\ IF o.kind = "ok"
               THEN /\ cur' = [file_path |-> media_files[i],
                               duration |-> duration,
                               values |-> o.audio.values,
                               video_bitrate |-> o.bitrate.v,
                               estimated_rf_value |-> None]
                    /\ pc' = IF job.variable_bitrate THEN "estimate" ELSE "launch"
                    /\ last' = [file |-> i, kind |-> "processing", rc |-> 0]
                    /\ current_file_progress' = Some(0)
                    /\ UNCHANGED overall_progress
                    /\ UNCHANGED <<processed_files, est, cmd,
                                   delete_file_signal>>
               ELSE IF o.kind = "raise" THEN Crash(i)
               ELSE SkipFile(i, o.kind)
    /\ UNCHANGED <<media_files, job, destFiles, handled, removed,
                   sampleEncoder, callVars, guiVars>>

(***************************************************************************)
(* EncodingWorker.estimate_rf_value                                        *)
(***************************************************************************)
\* return None / return round(rf_value, 2): back in run at line 366.
EstimateReturn(kind, ret, iteration) ==
    /\ pc' = "est_returned"
    /\ est' = [NoEst EXCEPT !.kind = kind, !.ret = ret, !.iteration = iteration]

\* How the sample extraction and a sample encode can end. A failed tool may
\* leave a partial output file behind; the deterministic tools never do.
ExtractResults ==
    IF sampleEncoder = "free"
    THEN {"raise", "failed", "failed_partial", "ok"}
    ELSE {"raise", "failed", "ok"}
SampleEncodeResults ==
    IF sampleEncoder = "free"
    THEN {"raise", "failed", "failed_output", "missing", "ok"}
    ELSE {"raise", "failed", "missing", "ok"}

\* Lines 657-704: the duration, the stale temporary files, the sample
\* extraction and the initial bounds. Launching the extractor may raise; a
\* failed extraction may leave a partial sample behind.
EstimateStart ==
    /\ pc = "estimate"
    /\ \E duration \in {None, cur.duration},
          extract \in ExtractResults,
          c \in IF sampleEncoder = "stub" THEN StubComplexities
                ELSE IF sampleEncoder = "stub25"
                THEN 1..Len(Stub25Curves)
                ELSE {0} :
         IF duration = None
         THEN /\ EstimateReturn("no_duration", None, 0)
              /\ UNCHANGED destFiles
         ELSE LET cleared == destFiles \ TempNames IN
              IF extract = "ok"
              THEN /\ destFiles' = cleared \cup {"temp_sample.mkv"}
                   /\ pc' = "est_loop"
                   /\ est' = [duration |-> duration,
                              c |-> c,
                              lower_rf |-> lower_rf_init * RfScale,
                              upper_rf |-> upper_rf_init * RfScale,
                              rf_value |-> Midpoint(lower_rf_init * RfScale,
                                                    upper_rf_init * RfScale),
                              iteration |-> 0,
                              kind |-> "",
                              ret |-> None]
              ELSE /\ destFiles' = IF extract = "failed_partial"
                                   THEN cleared \cup {"temp_sample.mkv"}
                                   ELSE cleared
                   /\ EstimateReturn(IF extract = "raise"
                                     THEN "extract_exception"
                                     ELSE "extract_failed", None, 0)
    /\ UNCHANGED <<media_files, job, idx, processed_files, cur, cmd, last,
                   progressVars,
                   delete_file_signal, handled, removed, sampleEncoder,
                   callVars, guiVars>>

\* NextBounds with an upper bound that moves up when the estimate is too
\* large.
NextBoundsWidening(lower_rf, upper_rf, rf_value, too_large) ==
    IF too_large
    THEN [lower_rf |-> rf_value, upper_rf |-> upper_rf + RfScale]
    ELSE [lower_rf |-> lower_rf, upper_rf |-> rf_value]

\* NextBounds with the two assignments exchanged.
NextBoundsSwapped(lower_rf, upper_rf, rf_value, too_large) ==
    IF too_large
    THEN [lower_rf |-> lower_rf, upper_rf |-> rf_value]
    ELSE [lower_rf |-> rf_value, upper_rf |-> upper_rf]

\* NextBounds with both bounds set to the candidate.
NextBoundsBoth(lower_rf, upper_rf, rf_value, too_large) ==
    [lower_rf |-> rf_value, upper_rf |-> rf_value]

\* lower_rf, upper_rf after a sample whose estimate is outside the band
\* (lines 771-776).
NextBounds(lower_rf, upper_rf, rf_value, too_large) ==
    IF too_large
    THEN [lower_rf |-> rf_value, upper_rf |-> upper_rf]
    ELSE [lower_rf |-> lower_rf, upper_rf |-> rf_value]

\* LoopContinues with <= in the place of <.
LoopContinuesOnceMore(iteration) == iteration <= max_iterations

\* while iteration < max_iterations (line 706).
LoopContinues(iteration) == iteration < max_iterations

\* The files the function leaves when the loop is over (lines 785-787).
FinalCleanup(files) == files \ {"temp_sample.mkv", "temp_encoded_sample.mkv"}

\* Sizes the encoded sample can have at the candidate in work.
SampleSizeChoices ==
    IF sampleEncoder = "stub" THEN {StubSize(est.c, est.rf_value)}
    ELSE IF sampleEncoder = "stub25"
    THEN {Stub25Size(Stub25Curves[est.c], est.rf_value,
                     ParseFloat(job.target_size_mb)[1].v,
                     SumSeq([k \in 1..Len(cur.values) |->
                                ParseFloat(cur.values[k])[1].v]),
                     est.duration[1])}
    ELSE SampleSizes

\* One pass of the while loop (lines 706-782), followed by lines 785-790
\* when the loop ends with it. The sample encode may fail to launch, exit
\* non-zero (with or without an output file), exit zero without an output
\* file, or write a sample of some size.
EstimateIteration ==
    /\ pc = "est_loop"
    /\ LoopContinues(est.iteration)
    /\ \E run \in SampleEncodeResults,
          sample_size_bytes \in SampleSizeChoices :
         LET iteration == est.iteration + 1
             target == ParseFloat(job.target_size_mb)[1].v
             audio_kbps == SumSeq([k \in 1..Len(cur.values) |->
                                      ParseFloat(cur.values[k])[1].v])
             total == EstimatedTotalBytes(sample_size_bytes, audio_kbps,
                                          est.duration[1])
             too_large == TooLarge(target, total)
             too_small == TooSmall(target, total)
             b == NextBounds(est.lower_rf, est.upper_rf, est.rf_value, too_large)
             rf_value == Midpoint(b.lower_rf, b.upper_rf)
         IN IF run = "raise"
            THEN /\ EstimateReturn("encode_exception", None, iteration)
                 /\ UNCHANGED destFiles
            ELSE IF run \in {"failed", "failed_output"}
            THEN /\ EstimateReturn("encode_failed", None, iteration)
                 /\ destFiles' = IF run = "failed_output"
                                 THEN destFiles \cup {"temp_encoded_sample.mkv"}
                                 ELSE destFiles
            ELSE IF run = "missing"
            THEN /\ EstimateReturn("missing_output", None, iteration)
                 /\ UNCHANGED destFiles
            ELSE IF ~too_large /\ ~too_small
            THEN /\ EstimateReturn("accepted", Some(Round2(est.rf_value)),
                                   iteration)
                 /\ destFiles' = FinalCleanup(destFiles)
            ELSE IF LoopContinues(iteration)
            THEN /\ pc' = "est_loop"
                 /\ est' = [est EXCEPT !.lower_rf = b.lower_rf,
                                       !.upper_rf = b.upper_rf,
                                       !.rf_value = rf_value,
                                       !.iteration = iteration]
                 /\ destFiles' = destFiles \ {"temp_encoded_sample.mkv"}
            ELSE /\ EstimateReturn("exhausted", Some(Round2(rf_value)),
                                   iteration)
                 /\ destFiles' = FinalCleanup(destFiles)
    /\ UNCHANGED <<media_files, job, idx, processed_files, cur, cmd, last,
                   progressVars,
                   delete_file_signal, handled, removed, sampleEncoder,
                   callVars, guiVars>>

\* AfterEstimate with a default quality of 22 in the place of the failure.
AfterEstimateWithDefault ==
    /\ pc = "est_returned"
    /\ cur' = [cur EXCEPT !.estimated_rf_value =
                              IF est.ret = None THEN Some(2200) ELSE est.ret]
    /\ pc' = "launch"
    /\ est' = NoEst
    /\ UNCHANGED <<processed_files, cmd, last, progressVars,
                           delete_file_signal>>
    /\ UNCHANGED <<media_files, job, idx, destFiles, handled, removed,
                   sampleEncoder, callVars, guiVars>>

\* Lines 365-378: a None from the estimator gives the file up; a value is
\* the quality of the final transcode.
AfterEstimate ==
    /\ pc = "est_returned"
    /\ IF est.ret = None
       THEN SkipFile(idx, "estimate_failed")
       ELSE /\ cur' = [cur EXCEPT !.estimated_rf_value = est.ret]
            /\ pc' = "launch"
            /\ est' = NoEst
            /\ UNCHANGED <<processed_files, cmd, last, progressVars,
                           delete_file_signal>>
    /\ UNCHANGED <<media_files, job, idx, destFiles, handled, removed,
                   sampleEncoder, callVars, guiVars>>

(***************************************************************************)
(* EncodingWorker.parse_handbrake_output                                   *)
(***************************************************************************)
Digits == {"0", "1", "2", "3", "4", "5", "6", "7", "8", "9"}
DigitValue(ch) ==
    CASE ch = "0" -> 0 [] ch = "1" -> 1 [] ch = "2" -> 2 [] ch = "3" -> 3
      [] ch = "4" -> 4 [] ch = "5" -> 5 [] ch = "6" -> 6 [] ch = "7" -> 7
      [] ch = "8" -> 8 [] ch = "9" -> 9

RECURSIVE DigitsValue(_)
\* int() of a sequence of digits.
DigitsValue(s) ==
    IF s = <<>> THEN 0
    ELSE 10 * DigitsValue(SubSeq(s, 1, Len(s) - 1)) + DigitValue(s[Len(s)])

RECURSIVE DigitRunEnd(_, _)
\* The index after the digits that start at i: where a greedy \d+ stops.
DigitRunEnd(line, i) ==
    IF i <= Len(line) /\ line[i] \in Digits THEN DigitRunEnd(line, i + 1)
    ELSE i

\* TokenEnd without the space.
TokenEndNoSpace == <<"%">>

\* What both patterns require after the number: ' %' (lines 631, 640).
TokenEnd == <<" ", "%">>

\* The characters of line from index b on begin with TokenEnd.
EndsToken(line, b) ==
    /\ b + Len(TokenEnd) - 1 <= Len(line)
    /\ \A k \in 1..Len(TokenEnd) : line[b + k - 1] = TokenEnd[k]

\* r'(\d+\.\d+) %' matches at index i.
DecimalMatchAt(line, i) ==
    /\ line[i] \in Digits
    /\ LET a == DigitRunEnd(line, i) IN
       /\ a + 1 <= Len(line)
       /\ line[a] = "."
       /\ line[a + 1] \in Digits
       /\ EndsToken(line, DigitRunEnd(line, a + 1))

\* r'(\d+) %' matches at index i.
IntegerMatchAt(line, i) ==
    /\ line[i] \in Digits
    /\ EndsToken(line, DigitRunEnd(line, i))

\* re.search: the leftmost of the indices at which the pattern matches, or
\* None.
Leftmost(found) ==
    IF found = {} THEN None
    ELSE Some(CHOOSE i \in found : \A j \in found : i <= j)

\* The two emissions of lines 636-637 and 644-645 for a percentage of
\* whole + frac / scale: int(overall) and int(percentage).
ProgressEmissions(whole, frac, scale, processed, total) ==
    [overall_progress |->
         Some(((processed * 100 + whole) * scale + frac) \div (total * scale)),
     current_file_progress |-> Some(whole)]

\* The number the first pattern that matches captures (lines 631-633,
\* 640-642), as whole + frac / scale, or None when neither matches.
MatchedPercentage(line) ==
    LET decimal == Leftmost({i \in 1..Len(line) : DecimalMatchAt(line, i)})
        integer == Leftmost({i \in 1..Len(line) : IntegerMatchAt(line, i)})
    IN IF decimal # None
       THEN LET i == decimal[1]
                a == DigitRunEnd(line, i)
                b == DigitRunEnd(line, a + 1)
            IN Some([whole |-> DigitsValue(SubSeq(line, i, a - 1)),
                     frac |-> DigitsValue(SubSeq(line, a + 1, b - 1)),
                     scale |-> 10 ^ (b - a - 1)])
       ELSE IF integer # None
       THEN LET i == integer[1]
                b == DigitRunEnd(line, i)
            IN Some([whole |-> DigitsValue(SubSeq(line, i, b - 1)),
                     frac |-> 0, scale |-> 1])
       ELSE None

\* parse_handbrake_output(line) with self.processed_files and
\* self.total_files: the values emitted on overall_progress and
\* current_file_progress, None where nothing is emitted.
parse_handbrake_output(line, processed, total) ==
    LET percentage == MatchedPercentage(line)
    IN IF percentage # None
       THEN ProgressEmissions(percentage[1].whole, percentage[1].frac,
                              percentage[1].scale, processed, total)
       ELSE [overall_progress |-> None, current_file_progress |-> None]

(***************************************************************************)
(* EncodingWorker.run: the transcoder                                      *)
(***************************************************************************)
\* The end of one pass of the for loop (lines 523-525).
FileDone(kind, rc) ==
    /\ processed_files' = processed_files + 1
    /\ last' = [file |-> idx, kind |-> kind, rc |-> rc]
    /\ overall_progress' =
          update_overall_progress(processed_files + 1, 0, job.total_files)
    /\ current_file_progress' = IF kind = "ok" THEN Some(100) ELSE Some(0)
    /\ pc' = "loop"
    /\ cur' = NoCur
    /\ cmd' = None

\* The quality or bitrate argument of the command (lines 415-425).
TranscoderArgument ==
    IF job.variable_bitrate
    THEN [file |-> idx, option |-> "-q", value |-> cur.estimated_rf_value[1]]
    ELSE [file |-> idx, option |-> "-b", value |-> cur.video_bitrate]

\* LaunchTranscoder without the read loop and process.wait(): run goes on
\* while the transcoder is still at work.
LaunchTranscoderNoWait ==
    /\ pc = "launch"
    /\ cmd' = Some(TranscoderArgument)
    /\ pc' = "loop"
    /\ processed_files' = processed_files + 1
    /\ last' = [file |-> idx, kind |-> "ok", rc |-> 0]
    /\ overall_progress' =
          update_overall_progress(processed_files + 1, 0, job.total_files)
    /\ current_file_progress' = Some(100)
    /\ cur' = NoCur
    /\ UNCHANGED <<est, delete_file_signal>>
    /\ UNCHANGED <<media_files, job, idx, destFiles, handled, removed,
                   sampleEncoder, callVars, guiVars>>

\* Lines 398-501: the command is built and the transcoder launched. Popen
\* may raise; the except of line 520 reports it and the pass ends.
LaunchTranscoder ==
    /\ pc = "launch"
    /\ IF idx > Len(job.selected_audio_tracks)
       THEN Crash(idx)
       ELSE \E launched \in BOOLEAN :
              /\ IF launched
                 THEN /\ cmd' = Some(TranscoderArgument)
                      /\ pc' = "transcoding"
                      /\ UNCHANGED <<processed_files, cur, last, progressVars>>
                 ELSE FileDone("launch_exception", 0)
              /\ UNCHANGED <<est, delete_file_signal>>
    /\ UNCHANGED <<media_files, job, idx, destFiles, handled, removed,
                   sampleEncoder, callVars, guiVars>>

\* One pass of the read loop (lines 503-507): a line of the transcoder's
\* output is handed to parse_handbrake_output, whose emissions, if any, are
\* the latest values of the two progress signals.
ReadProgressLine(line) ==
    /\ pc = "transcoding"
    /\ LET e == parse_handbrake_output(line, processed_files, job.total_files)
       IN /\ parse' = [line |-> line, file |-> idx,
                       processed_files |-> processed_files,
                       total_files |-> job.total_files, called |-> TRUE,
                       overall_progress |-> e.overall_progress,
                       current_file_progress |-> e.current_file_progress]
          /\ IF e.overall_progress # None
             THEN /\ overall_progress' = e.overall_progress
                  /\ current_file_progress' = e.current_file_progress
             ELSE UNCHANGED progressVars
    /\ UNCHANGED <<media_files, job, pc, idx, processed_files, cur, est, cmd,
                   last, delete_file_signal, destFiles, handled, removed,
                   sampleEncoder, calc, check, build, guiVars>>

\* TranscoderExit with the emission outside the returncode test.
TranscoderExitAlwaysEmits ==
    /\ pc = "transcoding"
    /\ \E returncode \in {0, 1} :
         /\ Len(delete_file_signal) - handled < MaxPending
         /\ FileDone(IF returncode = 0 THEN "ok" ELSE "transcoder_failed",
                     returncode)
         /\ delete_file_signal' =
               Append(delete_file_signal,
                      [file_path |-> cur.file_path,
                       option |-> job.delete_source_files])
    /\ UNCHANGED <<media_files, job, idx, est, destFiles, handled, removed,
                   sampleEncoder, callVars, guiVars>>

\* Lines 503-525: the transcoder's output is read to its end, the process
\* waited for; exit code 0 completes the file and emits delete_file_signal.
TranscoderExit ==
    /\ pc = "transcoding"
    /\ \E returncode \in {0, 1} :
         IF returncode # 0
         THEN /\ FileDone("transcoder_failed", returncode)
              /\ UNCHANGED delete_file_signal
         ELSE /\ Len(delete_file_signal) - handled < MaxPending
              /\ FileDone("ok", returncode)
              /\ delete_file_signal' =
                    Append(delete_file_signal,
                           [file_path |-> cur.file_path,
                            option |-> job.delete_source_files])
    /\ UNCHANGED <<media_files, job, idx, est, destFiles, handled, removed,
                   sampleEncoder, callVars, guiVars>>

\* Lines 527-528: the list is exhausted; overall progress 100 and finished.
Finish ==
    /\ pc = "loop"
    /\ idx >= Len(media_files)
    /\ pc' = "finished"
    /\ overall_progress' = Some(100)
    /\ UNCHANGED <<media_files, job, idx, processed_files, cur, est, cmd, last,
                   current_file_progress,
                   delete_file_signal, destFiles, handled, removed,
                   sampleEncoder, callVars, guiVars>>

(***************************************************************************)
(* MediaEncoderGUI.handle_delete_source_file                               *)
(***************************************************************************)
\* The slot runs in the GUI thread for each queued delete_file_signal, in
\* the order of emission: 'auto' removes the source, 'ask' removes it when
\* the user answers yes, 'no' keeps it.
handle_delete_source_file ==
    /\ handled < Len(delete_file_signal)
    /\ LET sig == delete_file_signal[handled + 1] IN
       \E reply_yes \in BOOLEAN :
          removed' = IF \/ sig.option = "Auto"
                        \/ sig.option = "Ask" /\ reply_yes
                     THEN removed \cup {sig.file_path}
                     ELSE removed
    /\ handled' = handled + 1
    /\ UNCHANGED <<workerVars, destFiles, sampleEncoder, callVars, guiVars>>

(***************************************************************************)
(* MediaEncoderGUI: the buttons                                            *)
(***************************************************************************)
\* An entry of self.media_files: the number of audio tracks of the file and
\* media['selected_audio_tracks'].
AllTracks(n) == [k \in 1..n |-> k - 1]
GuiSelections(n) == {AllTracks(m) : m \in 0..n}

RECURSIVE MaxSelected(_)
\* max_selected_audio_tracks of lines 2561-2564.
MaxSelected(files) ==
    IF files = <<>> THEN 0
    ELSE LET rest == MaxSelected(Tail(files))
             here == Len(Head(files).selected_audio_tracks)
         IN IF here > rest THEN here ELSE rest

\* bitrate.isdigit() and int(bitrate) > 0, on the texts of the vocabulary.
IsPositiveDigits(text) == ParseInt(text) # None /\ ParseInt(text)[1] > 0

\* inputs_valid of on_settings_changed (lines 2538-2593); the preset combo
\* stays on 'None'.
InputsValid(files, target, dest_ok, enc, bitrate) ==
    /\ files # <<>>
    /\ ParseFloat(target) # None
    /\ dest_ok
    /\ (enc \notin {"copy", "None"} /\ MaxSelected(files) > 0)
          => /\ bitrate # <<>>
             /\ Len(bitrate) = MaxSelected(files)
             /\ \A k \in 1..Len(bitrate) : IsPositiveDigits(bitrate[k])

\* ButtonStates without the test of self.encoding_in_progress.
ButtonStatesIgnoringProgress(in_progress, inputs_valid, has_media) ==
    [start |-> inputs_valid, check |-> has_media, clear |-> has_media]

\* What on_settings_changed sets the three buttons to (lines 2595-2606).
ButtonStates(in_progress, inputs_valid, has_media) ==
    IF in_progress
    THEN [start |-> FALSE, check |-> FALSE, clear |-> FALSE]
    ELSE [start |-> inputs_valid, check |-> has_media, clear |-> has_media]

\* on_settings_changed, given what the widgets and fields hold when it runs.
on_settings_changed(files, target, dest_ok, enc, bitrate, in_progress) ==
    LET b == ButtonStates(in_progress,
                          InputsValid(files, target, dest_ok, enc, bitrate),
                          files # <<>>)
    IN /\ start_encoding_btn' = b.start
       /\ check_media_btn' = b.check
       /\ clear_media_btn' = b.clear

threadVars == <<encoding_workers, encoding_finished_queued,
                check_media_workers, check_finished_queued,
                add_media_workers, add_finished_queued>>
widgetVars == <<target_size_input, audio_bitrate_input, audio_encoder_combo,
                dest_valid>>
batchVars == <<workerVars, destFiles, handled, removed, sampleEncoder,
               callVars>>

\* No worker is modelled step by step while the window is.
NoBatch ==
    /\ InitWorker(0, [target_size_mb |-> "1", audio_bitrate |-> <<>>,
                      selected_audio_encoder |-> "copy",
                      variable_bitrate |-> FALSE,
                      delete_source_files |-> "No"], <<>>)
    /\ destFiles = {}
    /\ sampleEncoder = "stub"
    /\ calc = NoCalc
    /\ parse = NoParse
    /\ check = NoCheck
    /\ build = NoBuild

\* The window after __init__: an empty list, the settings load_settings
\* restored, the start button disabled (line 1692), the other two as created
\* or as an on_settings_changed during the load left them.
InitGui ==
    /\ NoBatch
    /\ gui_media_files = <<>>
    /\ target_size_input \in GuiTargetTexts
    /\ audio_encoder_combo \in GuiAudioEncoders
    /\ audio_bitrate_input \in GuiAudioBitrateTexts
    /\ audio_encoder_combo = "copy" => audio_bitrate_input = <<>>
    /\ dest_valid \in BOOLEAN
    /\ start_encoding_btn = FALSE
    /\ check_media_btn \in BOOLEAN
    /\ clear_media_btn = check_media_btn
    /\ encoding_in_progress = FALSE
    /\ encoding_workers = 0
    /\ encoding_finished_queued = 0
    /\ check_media_workers = 0
    /\ check_finished_queued = 0
    /\ add_media_workers = 0
    /\ add_finished_queued = 0

(***************************************************************************)
(* MediaEncoderGUI: the handlers                                           *)
(***************************************************************************)
\* textChanged of the target-size field (line 1932).
TargetSizeChanged ==
    /\ \E text \in GuiTargetTexts \ {target_size_input} :
         /\ target_size_input' = text
         /\ on_settings_changed(gui_media_files, text, dest_valid,
                                audio_encoder_combo, audio_bitrate_input,
                                encoding_in_progress)
    /\ UNCHANGED <<gui_media_files, audio_bitrate_input, audio_encoder_combo,
                   dest_valid, encoding_in_progress, threadVars, batchVars>>

\* textChanged of the audio-bitrate field (line 1933); the field is disabled
\* while the encoder is 'copy' or 'None'.
AudioBitrateChanged ==
    /\ audio_encoder_combo \notin {"copy", "None"}
    /\ \E text \in GuiAudioBitrateTexts \ {audio_bitrate_input} :
         /\ audio_bitrate_input' = text
         /\ on_settings_changed(gui_media_files, target_size_input,
                                dest_valid, audio_encoder_combo, text,
                                encoding_in_progress)
    /\ UNCHANGED <<gui_media_files, target_size_input, audio_encoder_combo,
                   dest_valid, encoding_in_progress, threadVars, batchVars>>

\* on_audio_encoder_changed (lines 2020-2029).
on_audio_encoder_changed ==
    /\ \E enc \in GuiAudioEncoders \ {audio_encoder_combo} :
         LET text == IF enc \in {"copy", "None"} THEN <<>>
                     ELSE audio_bitrate_input
         IN /\ audio_encoder_combo' = enc
            /\ audio_bitrate_input' = text
            /\ on_settings_changed(gui_media_files, target_size_input,
                                   dest_valid, enc, text,
                                   encoding_in_progress)
    /\ UNCHANGED <<gui_media_files, target_size_input, dest_valid,
                   encoding_in_progress, threadVars, batchVars>>

\* on_destination_changed (lines 2676-2679).
on_destination_changed ==
    /\ dest_valid' = ~dest_valid
    /\ on_settings_changed(gui_media_files, target_size_input, ~dest_valid,
                           audio_encoder_combo, audio_bitrate_input,
                           encoding_in_progress)
    /\ UNCHANGED <<gui_media_files, target_size_input, audio_bitrate_input,
                   audio_encoder_combo, encoding_in_progress, threadVars,
                   batchVars>>

\* dropEvent (lines 2144-2158): an AddMediaWorker is started.
dropEvent ==
    /\ add_media_workers + add_finished_queued < MaxAddWorkers
    /\ add_media_workers' = add_media_workers + 1
    /\ on_settings_changed(gui_media_files, target_size_input, dest_valid,
                           audio_encoder_combo, audio_bitrate_input,
                           encoding_in_progress)
    /\ UNCHANGED <<gui_media_files, widgetVars, encoding_in_progress,
                   encoding_workers, encoding_finished_queued,
                   check_media_workers, check_finished_queued,
                   add_finished_queued, batchVars>>

\* add_media_files_incrementally without the change of selection that
\* reaches on_settings_changed: the buttons are not touched.
add_media_files_incrementallyKeepsButtons ==
    /\ add_media_workers > 0
    /\ Len(gui_media_files) < MaxGuiFiles
    /\ \E n \in TrackCounts :
         gui_media_files' =
            Append(gui_media_files,
                   [tracks |-> n, selected_audio_tracks |-> AllTracks(n)])
    /\ UNCHANGED <<widgetVars, start_encoding_btn, check_media_btn,
                   clear_media_btn, encoding_in_progress, threadVars,
                   batchVars>>

\* add_media_files_incrementally (lines 2160-2185), the slot of the progress
\* signal of an AddMediaWorker: a file is appended with all its audio tracks
\* selected; clearSelection and setCurrentItem (lines 2181-2183) then change
\* the selection of the list, whose itemSelectionChanged signal is connected
\* to on_settings_changed (line 1935).
add_media_files_incrementally ==
    /\ add_media_workers > 0
    /\ Len(gui_media_files) < MaxGuiFiles
    /\ \E n \in TrackCounts :
         LET files == Append(gui_media_files,
                             [tracks |-> n,
                              selected_audio_tracks |-> AllTracks(n)])
         IN /\ gui_media_files' = files
            /\ on_settings_changed(files, target_size_input, dest_valid,
                                   audio_encoder_combo, audio_bitrate_input,
                                   encoding_in_progress)
    /\ UNCHANGED <<widgetVars, encoding_in_progress, threadVars, batchVars>>

\* AddMediaWorker.run ends: finished is emitted and queued for the window.
AddMediaWorkerFinished ==
    /\ add_media_workers > 0
    /\ add_media_workers' = add_media_workers - 1
    /\ add_finished_queued' = add_finished_queued + 1
    /\ UNCHANGED <<gui_media_files, widgetVars, start_encoding_btn,
                   check_media_btn, clear_media_btn, encoding_in_progress,
                   encoding_workers, encoding_finished_queued,
                   check_media_workers, check_finished_queued, batchVars>>

\* on_add_media_finished (lines 2187-2188).
on_add_media_finished ==
    /\ add_finished_queued > 0
    /\ add_finished_queued' = add_finished_queued - 1
    /\ on_settings_changed(gui_media_files, target_size_input, dest_valid,
                           audio_encoder_combo, audio_bitrate_input,
                           encoding_in_progress)
    /\ UNCHANGED <<gui_media_files, widgetVars, encoding_in_progress,
                   encoding_workers, encoding_finished_queued,
                   check_media_workers, check_finished_queued,
                   add_media_workers, batchVars>>

\* The sequence s without its k-th element.
RemoveAt(s, k) == [j \in 1..(Len(s) - 1) |-> IF j < k THEN s[j] ELSE s[j + 1]]

\* delete_selected_media (lines 2617-2625): the Delete key on a selected
\* item of the list.
delete_selected_media ==
    /\ \E k \in 1..Len(gui_media_files) :
         /\ gui_media_files' = RemoveAt(gui_media_files, k)
         /\ on_settings_changed(RemoveAt(gui_media_files, k),
                                target_size_input, dest_valid,
                                audio_encoder_combo, audio_bitrate_input,
                                encoding_in_progress)
    /\ UNCHANGED <<widgetVars, encoding_in_progress, threadVars, batchVars>>

\* clear_media_list (lines 2627-2645), the slot of the clear button.
clear_media_list ==
    /\ clear_media_btn
    /\ gui_media_files' = <<>>
    /\ on_settings_changed(<<>>, target_size_input, dest_valid,
                           audio_encoder_combo, audio_bitrate_input,
                           encoding_in_progress)
    /\ UNCHANGED <<widgetVars, encoding_in_progress, threadVars, batchVars>>

\* open_audio_selection_dialog (lines 2688-2746), accepted with another
\* selection for one file.
open_audio_selection_dialog ==
    /\ \E k \in 1..Len(gui_media_files) :
         \E sel \in GuiSelections(gui_media_files[k].tracks)
                       \ {gui_media_files[k].selected_audio_tracks} :
            LET files == [gui_media_files EXCEPT
                             ![k].selected_audio_tracks = sel]
            IN /\ gui_media_files' = files
               /\ on_settings_changed(files, target_size_input, dest_valid,
                                      audio_encoder_combo,
                                      audio_bitrate_input,
                                      encoding_in_progress)
    /\ UNCHANGED <<widgetVars, encoding_in_progress, threadVars, batchVars>>

\* check_media (lines 2190-2209), the slot of the check button: the three
\* buttons are disabled and a CheckMediaWorker is started.
check_media ==
    /\ check_media_btn
    /\ check_media_workers + check_finished_queued < MaxWorkers
    /\ check_media_btn' = FALSE
    /\ start_encoding_btn' = FALSE
    /\ clear_media_btn' = FALSE
    /\ check_media_workers' = check_media_workers + 1
    /\ UNCHANGED <<gui_media_files, widgetVars, encoding_in_progress,
                   encoding_workers, encoding_finished_queued,
                   check_finished_queued, add_media_workers,
                   add_finished_queued, batchVars>>

\* CheckMediaWorker.run ends (line 186): finished is emitted and queued.
CheckMediaWorkerFinished ==
    /\ check_media_workers > 0
    /\ check_media_workers' = check_media_workers - 1
    /\ check_finished_queued' = check_finished_queued + 1
    /\ UNCHANGED <<gui_media_files, widgetVars, start_encoding_btn,
                   check_media_btn, clear_media_btn, encoding_in_progress,
                   encoding_workers, encoding_finished_queued,
                   add_media_workers, add_finished_queued, batchVars>>

\* check_media_finished (lines 2211-2216): refresh_media_info rebuilds the
\* list, every file with all its tracks selected, or none when its media
\* info cannot be read; then on_settings_changed.
check_media_finished ==
    /\ check_finished_queued > 0
    /\ check_finished_queued' = check_finished_queued - 1
    /\ \E info \in [1..Len(gui_media_files) -> BOOLEAN] :
         LET files == [k \in 1..Len(gui_media_files) |->
                         [tracks |-> gui_media_files[k].tracks,
                          selected_audio_tracks |->
                             IF info[k]
                             THEN AllTracks(gui_media_files[k].tracks)
                             ELSE <<>>]]
         IN /\ gui_media_files' = files
            /\ on_settings_changed(files, target_size_input, dest_valid,
                                   audio_encoder_combo, audio_bitrate_input,
                                   encoding_in_progress)
    /\ UNCHANGED <<widgetVars, encoding_in_progress, encoding_workers,
                   encoding_finished_queued, check_media_workers,
                   add_media_workers, add_finished_queued, batchVars>>

\* start_encoding (lines 2393-2468), the slot of the start button: the three
\* buttons are disabled, the flag set and an EncodingWorker started.
start_encoding ==
    /\ start_encoding_btn
    /\ encoding_workers + encoding_finished_queued < MaxWorkers
    /\ check_media_btn' = FALSE
    /\ start_encoding_btn' = FALSE
    /\ clear_media_btn' = FALSE
    /\ encoding_in_progress' = TRUE
    /\ encoding_workers' = encoding_workers + 1
    /\ UNCHANGED <<gui_media_files, widgetVars, encoding_finished_queued,
                   check_media_workers, check_finished_queued,
                   add_media_workers, add_finished_queued, batchVars>>

\* EncodingWorker.run ends (line 528): finished is emitted and queued.
EncodingWorkerFinished ==
    /\ encoding_workers > 0
    /\ encoding_workers' = encoding_workers - 1
    /\ encoding_finished_queued' = encoding_finished_queued + 1
    /\ UNCHANGED <<gui_media_files, widgetVars, start_encoding_btn,
                   check_media_btn, clear_media_btn, encoding_in_progress,
                   check_media_workers, check_finished_queued,
                   add_media_workers, add_finished_queued, batchVars>>

\* EncodingWorker.run is left by an exception nothing catches: the thread
\* ends and finished is never emitted.
EncodingWorkerDies ==
    /\ encoding_workers > 0
    /\ encoding_workers' = encoding_workers - 1
    /\ UNCHANGED <<gui_media_files, widgetVars, start_encoding_btn,
                   check_media_btn, clear_media_btn, encoding_in_progress,
                   encoding_finished_queued, check_media_workers,
                   check_finished_queued, add_media_workers,
                   add_finished_queued, batchVars>>

\* encoding_finished (lines 2474-2482).
encoding_finished ==
    /\ encoding_finished_queued > 0
    /\ encoding_finished_queued' = encoding_finished_queued - 1
    /\ encoding_in_progress' = FALSE
    /\ on_settings_changed(gui_media_files, target_size_input, dest_valid,
                           audio_encoder_combo, audio_bitrate_input, FALSE)
    /\ UNCHANGED <<gui_media_files, widgetVars, encoding_workers,
                   check_media_workers, check_finished_queued,
                   add_media_workers, add_finished_queued, batchVars>>

(***************************************************************************)
(* Specifications                                                          *)
(***************************************************************************)
Next ==
    \/ PrepareFile
    \/ EstimateStart
    \/ EstimateIteration
    \/ AfterEstimate
    \/ LaunchTranscoder
    \/ TranscoderExit
    \/ Finish
    \/ handle_delete_source_file

\* Encode batches with a deterministic sample encoder.
Spec == Init /\ [][Next]_vars

\* The events of the window and of the threads it starts.
NextGui ==
    \/ TargetSizeChanged
    \/ AudioBitrateChanged
    \/ on_audio_encoder_changed
    \/ on_destination_changed
    \/ dropEvent
    \/ add_media_files_incrementally
    \/ AddMediaWorkerFinished
    \/ on_add_media_finished
    \/ delete_selected_media
    \/ clear_media_list
    \/ open_audio_selection_dialog
    \/ check_media
    \/ CheckMediaWorkerFinished
    \/ check_media_finished
    \/ start_encoding
    \/ EncodingWorkerFinished
    \/ EncodingWorkerDies
    \/ encoding_finished

\* The window from its construction on.
SpecGui == InitGui /\ [][NextGui]_vars

\* Constant-quality batches with arbitrary sample sizes.
SpecEst == InitEst /\ [][Next]_vars

\* The same batches when every external process the estimator waits for
\* exits: subprocess.run returns, so the function takes its next step.
SpecEstLive ==
    /\ InitEst
    /\ [][Next]_vars
    /\ WF_vars(EstimateStart)
    /\ WF_vars(EstimateIteration)

\* A constant-quality batch for 10 MB whose sample encoder is one of
\* Stub25Curves.
InitStub25 ==
    /\ \E n \in 1..MaxEstFiles, settings \in Jobs :
         /\ settings.variable_bitrate
         /\ settings.delete_source_files = "No"
         /\ settings.selected_audio_encoder = "copy"
         /\ InitWorker(n, [settings EXCEPT !.target_size_mb = "10"],
                       [i \in 1..n |-> <<0>>])
    /\ destFiles = {}
    /\ sampleEncoder = "stub25"
    /\ calc = NoCalc
    /\ parse = NoParse
    /\ check = NoCheck
    /\ build = NoBuild
    /\ GuiDuringBatch

SpecStub25 == InitStub25 /\ [][Next]_vars

\* A batch of up to MaxFiles files whose transcoder output is read line by
\* line.
InitProgress ==
    /\ \E n \in 1..MaxFiles, variable_bitrate \in BOOLEAN :
         InitWorker(n, [target_size_mb |-> "1", audio_bitrate |-> <<>>,
                        selected_audio_encoder |-> "copy",
                        variable_bitrate |-> variable_bitrate,
                        delete_source_files |-> "No"],
                    [i \in 1..n |-> <<0>>])
    /\ destFiles = {}
    /\ sampleEncoder = "stub"
    /\ calc = NoCalc
    /\ parse = NoParse
    /\ check = NoCheck
    /\ build = NoBuild
    /\ GuiDuringBatch

NextProgress ==
    \/ Next
    \/ \E line \in OutputLines : ReadProgressLine(line)

SpecProgress == InitProgress /\ [][NextProgress]_vars

(***************************************************************************)
(* CheckMediaWorker.run                                                    *)
(***************************************************************************)
\* max_attempts of line 167.
max_attempts == 2

\* What the inspector call of check_needs_update can come to: a bitrate of
\* a video or audio track is missing, none is, or the call or its parsing
\* raises.
InspectionResults == {"missing", "complete", "error"}

\* check_needs_update answering True when no bitrate is missing.
check_needs_updateInverted(inspection) == inspection = "complete"

\* check_needs_update (lines 188-220): an exception is reported and
\* answered with False.
check_needs_update(inspection) == inspection = "missing"

\* How update_duration (lines 222-242) can end: the number of runs of the
\* metadata editor that were made and the value returned. A run that exits
\* non-zero, or a launch that raises, ends the function with False.
UpdateOutcomes ==
    {[runs |-> 0, ok |-> FALSE], [runs |-> 1, ok |-> FALSE],
     [runs |-> 2, ok |-> FALSE], [runs |-> 2, ok |-> TRUE]}

\* RepairContinues with <= in the place of <.
RepairContinuesOnceMore(needs_update, attempts) ==
    needs_update /\ attempts <= max_attempts

\* while needs_update and attempts < max_attempts (line 169).
RepairContinues(needs_update, attempts) ==
    needs_update /\ attempts < max_attempts

\* A check batch over up to MaxFiles files.
InitCheck ==
    /\ InitWorker(0, [target_size_mb |-> "1", audio_bitrate |-> <<>>,
                      selected_audio_encoder |-> "copy",
                      variable_bitrate |-> FALSE,
                      delete_source_files |-> "No"], <<>>)
    /\ destFiles = {}
    /\ sampleEncoder = "stub"
    /\ calc = NoCalc
    /\ parse = NoParse
    /\ build = NoBuild
    /\ GuiDuringBatch
    /\ \E n \in 0..MaxFiles :
         check = [NoCheck EXCEPT !.n = n, !.pc = "loop"]

\* Lines 151-168: the next file is inspected; it is left alone when no
\* update is needed, otherwise the repair loop is entered.
CheckNextFile ==
    /\ check.pc = "loop"
    /\ check.idx < check.n
    /\ \E inspection \in InspectionResults :
         LET needs_update == check_needs_update(inspection)
             c == [check EXCEPT !.idx = @ + 1, !.inspected = inspection,
                                !.needs_update = needs_update,
                                !.attempts = 0, !.calls = 0, !.runs = 0]
         IN check' = IF needs_update
                     THEN [c EXCEPT !.pc = "repair"]
                     ELSE [c EXCEPT !.reports =
                                       Append(@, [file |-> c.idx,
                                                  kind |-> "no_update_needed"])]
    /\ UNCHANGED <<workerVars, destFiles, handled, removed, sampleEncoder,
                   calc, parse, build, guiVars>>

\* One pass of the while loop (lines 169-181), followed by lines 182-183
\* when the loop ends with it.
RepairAttempt ==
    /\ check.pc = "repair"
    /\ RepairContinues(check.needs_update, check.attempts)
    /\ \E update \in UpdateOutcomes, inspection \in InspectionResults :
         LET ran == [check EXCEPT !.runs = @ + update.runs,
                                  !.calls = @ + 1]
         IN IF ~update.ok
            THEN check' = [ran EXCEPT
                              !.pc = "loop",
                              !.reports = Append(@, [file |-> check.idx,
                                                     kind |-> "update_failed"])]
            ELSE LET needs_update == check_needs_update(inspection)
                     c == [ran EXCEPT !.inspected = inspection,
                                      !.needs_update = needs_update]
                 IN IF ~needs_update
                    THEN check' = [c EXCEPT
                                      !.pc = "loop",
                                      !.reports =
                                          Append(@, [file |-> check.idx,
                                                     kind |-> "updated"])]
                    ELSE IF RepairContinues(needs_update, check.attempts + 1)
                    THEN check' = [c EXCEPT !.attempts = @ + 1]
                    ELSE check' = [c EXCEPT
                                      !.attempts = @ + 1,
                                      !.pc = "loop",
                                      !.reports =
                                          Append(@, [file |-> check.idx,
                                                     kind |-> "still_missing"])]
    /\ UNCHANGED <<workerVars, destFiles, handled, removed, sampleEncoder,
                   calc, parse, build, guiVars>>

\* Lines 185-186: the list is exhausted; finished is emitted.
CheckFinish ==
    /\ check.pc = "loop"
    /\ check.idx >= check.n
    /\ check' = [check EXCEPT !.pc = "finished"]
    /\ UNCHANGED <<workerVars, destFiles, handled, removed, sampleEncoder,
                   calc, parse, build, guiVars>>

NextCheck ==
    \/ CheckNextFile
    \/ RepairAttempt
    \/ CheckFinish

SpecCheck == InitCheck /\ [][NextCheck]_vars

\* The thread runs as long as it has a step to take: every tool it starts
\* exits.
SpecCheckLive == SpecCheck /\ WF_vars(NextCheck)

(***************************************************************************)
(* Single calls of calculate_video_bitrate                                 *)
(***************************************************************************)
\* A worker about to call calculate_video_bitrate with some arguments.
InitCalc ==
    /\ InitWorker(1, [target_size_mb |-> "1", audio_bitrate |-> <<>>,
                      selected_audio_encoder |-> "copy",
                      variable_bitrate |-> FALSE,
                      delete_source_files |-> "No"], <<<<0>>>>)
    /\ destFiles = {}
    /\ sampleEncoder = "stub"
    /\ GuiDuringBatch
    /\ \E duration \in {None} \cup {Some(d) : d \in CalcDurations},
          target_size_mb \in CalcTargetTexts,
          audio_bitrate_values \in CalcAudioValues :
         calc = [duration |-> duration,
                 target_size_mb |-> target_size_mb,
                 audio_bitrate_values |-> audio_bitrate_values,
                 result |-> None]
    /\ parse = NoParse
    /\ check = NoCheck
    /\ build = NoBuild

\* The call is made (line 343) and its outcome kept.
CalculateVideoBitrate ==
    /\ calc.result = None
    /\ calc' = [calc EXCEPT !.result =
                   Some(calculate_video_bitrate(calc.duration,
                                                calc.target_size_mb,
                                                calc.audio_bitrate_values))]
    /\ UNCHANGED <<workerVars, destFiles, handled, removed, sampleEncoder,
                   parse, check, build, guiVars>>

NextCalc == CalculateVideoBitrate

SpecCalc == InitCalc /\ [][NextCalc]_vars

(***************************************************************************)
(* Single calls of parse_handbrake_output                                  *)
(***************************************************************************)
\* A worker in the read loop of line 503 with a line of transcoder output;
\* processed_files of total_files files are behind it.
InitParse ==
    /\ InitWorker(1, [target_size_mb |-> "1", audio_bitrate |-> <<>>,
                      selected_audio_encoder |-> "copy",
                      variable_bitrate |-> FALSE,
                      delete_source_files |-> "No"], <<<<0>>>>)
    /\ destFiles = {}
    /\ sampleEncoder = "stub"
    /\ GuiDuringBatch
    /\ calc = NoCalc
    /\ check = NoCheck
    /\ build = NoBuild
    /\ \E line \in OutputLines, total \in 1..MaxFiles :
         \E processed \in 0..(total - 1) :
            parse = [line |-> line, file |-> 0,
                     processed_files |-> processed,
                     total_files |-> total, called |-> FALSE,
                     overall_progress |-> None,
                     current_file_progress |-> None]

\* The call of line 507.
ParseHandbrakeOutput ==
    /\ ~parse.called
    /\ LET e == parse_handbrake_output(parse.line, parse.processed_files,
                                       parse.total_files)
       IN parse' = [parse EXCEPT !.called = TRUE,
                                 !.overall_progress = e.overall_progress,
                                 !.current_file_progress =
                                     e.current_file_progress]
    /\ UNCHANGED <<workerVars, destFiles, handled, removed, sampleEncoder,
                   calc, check, build, guiVars>>

NextParse == ParseHandbrakeOutput

SpecParse == InitParse /\ [][NextParse]_vars

(***************************************************************************)
(* Properties of the encode batch                                          *)
(***************************************************************************)
\* The messages with which run gives one file up and goes on.
PerFileFailures ==
    {"duration_error", "audio_bitrate_error", "invalid_audio_bitrate",
     "mismatch", "no_audio_bitrate", "bitrate_failed", "estimate_failed",
     "transcoder_failed", "launch_exception"}

ShortBitrateList(i) ==
    /\ job.selected_audio_encoder # "copy"
    /\ job.audio_bitrate # <<>>
    /\ \A k \in 1..Len(job.audio_bitrate) : ParseInt(job.audio_bitrate[k]) # None
    /\ i \in 1..Len(job.selected_audio_tracks)
    /\ Len(job.audio_bitrate) < Len(job.selected_audio_tracks[i])

\* C2: without pass-through, a file with fewer audio bitrates than selected
\* tracks fails with the mismatch message whenever the inspector gave its
\* duration (the duration message comes first otherwise); the step that takes
\* the file gives it up at once, so neither the estimator nor the transcoder
\* is ever at work on it, nothing is counted or emitted for it, and the loop
\* goes on.
C2_MismatchFailsOnlyThatFile ==
    /\ [](\A i \in 1..Len(media_files) :
            ShortBitrateList(i)
               => \A d \in Durations, s \in AudioTotalResults :
                     PrepareOutcome(i, Some(d), s).kind = "mismatch")
    /\ [][(idx' # idx /\ ShortBitrateList(idx'))
             => /\ last'.file = idx'
                /\ last'.kind \in {"mismatch", "duration_error"}
                /\ pc' = "loop"
                /\ cmd' = None
                /\ est' = NoEst
                /\ processed_files' = processed_files
                /\ delete_file_signal' = delete_file_signal]_vars
    /\ [](pc \in {"estimate", "est_loop", "est_returned", "launch",
                  "transcoding"} => ~ShortBitrateList(idx))

\* C2 witness: a finished constant-quality batch of three files where only
\* file 2 has a short bitrate list: files 1 and 3 were transcoded with exit
\* code 0, file 2 was not counted.
C2_Witness ==
    /\ pc = "finished"
    /\ Len(media_files) = 3
    /\ job.variable_bitrate
    /\ ShortBitrateList(2) /\ ~ShortBitrateList(1) /\ ~ShortBitrateList(3)
    /\ processed_files = 2
    /\ Len(delete_file_signal) = 2
    /\ delete_file_signal[1].file_path = media_files[1]
    /\ delete_file_signal[2].file_path = media_files[3]

\* C3: in fixed-bitrate mode no transcoder invocation carries a negative
\* bitrate (a file whose computed bitrate is negative is failed instead).
C3_NoNegativeBitrateInvoked ==
    cmd # None => ~(cmd[1].option = "-b" /\ cmd[1].value < 0)

\* C4: when estimate_rf_value returns, on whatever path, neither
\* temp_sample.mkv nor temp_encoded_sample.mkv is in the destination folder.
C4_NoTempFilesOnReturn ==
    pc = "est_returned" => destFiles \cap TempNames = {}

\* C5: a quality value estimate_rf_value returns lies within [18, 40]
\* (hundredths: 1800..4000), whatever sizes the sample encodes had.
C5_ReturnedQualityInBounds ==
    (pc = "est_returned" /\ est.ret # None)
        => (est.ret[1] >= 100 * lower_rf_init /\ est.ret[1] <= 100 * upper_rf_init)

\* C5 witness: ten samples that were all too small: the value returned is
\* 18.01, the lowest the bisection reaches.
C5_Witness ==
    /\ pc = "est_returned"
    /\ est.kind = "exhausted"
    /\ est.ret = Some(1801)

\* C6: estimate_rf_value runs at most 10 sample encodes (each pass of its
\* loop counts one more) and, its external processes exiting, returns; when
\* no estimate fell in the band it returns a value after exactly 10 encodes,
\* run takes that value as the quality, and the transcoder is invoked with it.
C6_TenEncodesThenLastCandidate ==
    /\ [](est.iteration <= 10)
    /\ [][(pc = "est_loop" /\ est' # est)
             => est'.iteration = est.iteration + 1]_vars
    /\ [](pc = "est_returned" /\ est.kind = "exhausted"
            => est.iteration = 10 /\ est.ret # None)
    /\ [][(pc = "est_returned" /\ est.kind = "exhausted" /\ pc' # pc)
             => /\ pc' = "launch"
                /\ cur'.estimated_rf_value = est.ret
                /\ last' = last]_vars
    /\ [](pc = "transcoding" /\ job.variable_bitrate
            => cmd = Some([file |-> idx, option |-> "-q",
                           value |-> cur.estimated_rf_value[1]]))
    /\ ((pc = "estimate") ~> (pc = "est_returned"))

\* C6 witness: the transcoder at work with quality 39.99, which only ten
\* samples that were all too large produce.
C6_Witness ==
    /\ pc = "transcoding"
    /\ cmd # None
    /\ cmd[1].option = "-q"
    /\ cmd[1].value = 3999

\* C7: a failed sample extraction, a sample encode that exits non-zero and
\* an encoded sample missing after exit code 0 make estimate_rf_value return
\* None; on None run reports the failure, counts nothing, invokes no
\* transcoder and goes on; a quality value in run is never anything but
\* what the estimator returned.
C7_EstimatorFailureFailsFile ==
    /\ [](pc = "est_returned"
             /\ est.kind \in {"extract_failed", "encode_failed", "missing_output"}
            => est.ret = None)
    /\ [][(pc = "est_returned" /\ est.ret = None /\ pc' # pc)
             => /\ pc' = "loop"
                /\ last' = [file |-> idx, kind |-> "estimate_failed", rc |-> 0]
                /\ cmd' = None
                /\ cur' = NoCur
                /\ processed_files' = processed_files
                /\ delete_file_signal' = delete_file_signal]_vars
    /\ [][(cur'.estimated_rf_value # cur.estimated_rf_value
             /\ cur'.estimated_rf_value # None)
             => /\ pc = "est_returned"
                /\ cur'.estimated_rf_value = est.ret]_vars
    /\ [](job.variable_bitrate /\ pc \in {"launch", "transcoding"}
            => cur.estimated_rf_value # None)

\* C7 witness: the second file of a batch given up after a sample file was
\* reported missing, the first one having been transcoded.
C7_Witness ==
    /\ pc = "loop"
    /\ last = [file |-> 2, kind |-> "estimate_failed", rc |-> 0]
    /\ processed_files = 1
    /\ cmd = None

\* C8: delete_file_signal is emitted only by the step in which the
\* transcoder of the file in work exits with code 0, for that file and not a
\* second time; a step that reports a failure emits nothing; a source file
\* is removed only by the GUI slot handling a queued signal, and never under
\* the option 'No'.
C8_DeleteSignalOnlyAfterSuccess ==
    /\ [][delete_file_signal' # delete_file_signal
             => /\ pc = "transcoding"
                /\ cmd # None
                /\ cmd[1].file = idx
                /\ last' = [file |-> idx, kind |-> "ok", rc |-> 0]
                /\ delete_file_signal' =
                      Append(delete_file_signal,
                             [file_path |-> media_files[idx],
                              option |-> job.delete_source_files])
                /\ \A k \in 1..Len(delete_file_signal) :
                      delete_file_signal[k].file_path # media_files[idx]]_vars
    /\ [][(last' # last /\ last'.kind \in PerFileFailures)
             => delete_file_signal' = delete_file_signal]_vars
    /\ [][removed' # removed
             => /\ UNCHANGED workerVars
                /\ handled' = handled + 1
                /\ handled < Len(delete_file_signal)
                /\ delete_file_signal[handled + 1].option \in {"Auto", "Ask"}
                /\ removed' = removed \cup
                                {delete_file_signal[handled + 1].file_path}]_vars
    /\ [](removed \subseteq
            {delete_file_signal[k].file_path : k \in 1..handled})

\* C8 witness: under 'Ask', two files transcoded with exit code 0 and a
\* third that failed; the user answered yes for the first only.
C8_Witness ==
    /\ pc = "finished"
    /\ job.delete_source_files = "Ask"
    /\ processed_files = 3
    /\ Len(delete_file_signal) = 2
    /\ handled = 2
    /\ removed = {delete_file_signal[1].file_path}

(***************************************************************************)
(* Properties of the window                                                *)
(***************************************************************************)
\* Encode batches started and not yet ended for the window: a worker in run,
\* or one whose finished signal encoding_finished has not handled.
EncodeBatchesInFlight == encoding_workers + encoding_finished_queued
\* Check batches started and not yet ended for the window.
CheckBatchesInFlight == check_media_workers + check_finished_queued

\* C9: from start_encoding until encoding_finished has handled the finished
\* signal, the flag is set and the start button is disabled, whatever
\* handlers run in between; so no second encode batch is ever started while
\* one is in flight.
C9_StartDisabledWhileEncoding ==
    /\ EncodeBatchesInFlight <= 1
    /\ EncodeBatchesInFlight = 1 => encoding_in_progress
    /\ encoding_in_progress => ~start_encoding_btn

\* C9 witness: an encode batch in flight while an add-media worker runs and
\* a file it delivered is in the list, with inputs that on_settings_changed
\* finds valid.
C9_Witness ==
    /\ EncodeBatchesInFlight = 1
    /\ add_media_workers > 0
    /\ Len(gui_media_files) = MaxGuiFiles
    /\ InputsValid(gui_media_files, target_size_input, dest_valid,
                   audio_encoder_combo, audio_bitrate_input)
    /\ ~start_encoding_btn

\* C10: while a check-media batch is in flight the start button and the
\* check button stay disabled, whatever handlers run in between.
C10_ButtonsDisabledWhileChecking ==
    CheckBatchesInFlight > 0 => (~start_encoding_btn /\ ~check_media_btn)

RunNext ==
    \/ PrepareFile
    \/ EstimateStart
    \/ EstimateIteration
    \/ AfterEstimate
    \/ LaunchTranscoder
    \/ TranscoderExit
    \/ Finish

\* The list and settings of the batch in work pass the validation after
\* which on_settings_changed enables the start button (the destination being
\* a directory).
StartAccepts ==
    InputsValid([i \in 1..Len(job.selected_audio_tracks) |->
                    [tracks |-> Len(job.selected_audio_tracks[i]),
                     selected_audio_tracks |-> job.selected_audio_tracks[i]]],
                job.target_size_mb, TRUE, job.selected_audio_encoder,
                job.audio_bitrate)

\* C12: a batch the start action accepted always gets to its end: as long
\* as run has not emitted overall progress 100 and finished (line 527-528),
\* it has a next step to take.
C12_AcceptedBatchFinishes ==
    StartAccepts => (pc = "finished" \/ ENABLED RunNext)

\* The outcomes of a file that run reports with a failure message on the
\* progress signal (lines 301, 310, 324, 334, 339, 346, 368, 510, 521).
FailureMessages ==
    {"duration_error", "audio_bitrate_error", "invalid_audio_bitrate",
     "mismatch", "no_audio_bitrate", "bitrate_failed", "estimate_failed",
     "launch_exception", "transcoder_failed"}

\* C13: when the worker has left a file behind (it is back at the head of
\* the loop, or the thread has ended), the file either completed or a failure
\* message was emitted for it: no file fails silently.
C13_NoSilentFailure ==
    (idx >= 1 /\ pc \in {"loop", "finished", "crashed"})
        => /\ last.file = idx
           /\ last.kind \in FailureMessages \cup {"ok"}

\* The inputs the window holds pass the validation of on_settings_changed.
GuiInputsValid ==
    InputsValid(gui_media_files, target_size_input, dest_valid,
                audio_encoder_combo, audio_bitrate_input)

CalcNumericCall ==
    /\ calc.result # None
    /\ calc.duration # None /\ calc.duration[1] > 0
    /\ ParseFloat(calc.target_size_mb) # None
    /\ ParseFloat(calc.target_size_mb)[1].fin
    /\ calc.audio_bitrate_values # <<>>
    /\ \A i \in 1..Len(calc.audio_bitrate_values) :
          ParseFloat(calc.audio_bitrate_values[i]) # None

\* totalAudioKbps of the call.
CalcTotalAudio ==
    SumSeq([i \in 1..Len(calc.audio_bitrate_values) |->
               ParseFloat(calc.audio_bitrate_values[i])[1].v])

\* The video bitrate in bits per second, times the duration:
\* targetSizeMB * 8 * 1024 * 1024 - totalAudioKbps * 1000 * duration.
CalcVideoBits ==
    ParseFloat(calc.target_size_mb)[1].v * 8 * 1024 * 1024
        - CalcTotalAudio * 1000 * calc.duration[1]

\* C15: for a positive duration, a numeric target size and a non-empty list
\* of numeric audio bitrates the call returns
\* floor(((targetSizeMB * 8 * 1024 * 1024) / duration
\*        - totalAudioKbps * 1000) / 1000).
C15_ReturnsFloorOfFormula ==
    CalcNumericCall
        => /\ calc.result[1].kind = "ok"
           /\ calc.result[1].v = CalcVideoBits \div (1000 * calc.duration[1])

\* |x|
Abs(x) == IF x < 0 THEN -x ELSE x

\* C16 as stated: for a positive duration and a positive target size the
\* result differs by less than 1 kbps from
\* (targetSizeMB * 8192 / duration) - totalAudioBitrateKbps.
C16_WithinOneOf8192Formula ==
    (CalcNumericCall /\ ParseFloat(calc.target_size_mb)[1].v > 0)
        => /\ calc.result[1].kind = "ok"
           /\ Abs(calc.result[1].v * calc.duration[1]
                    - (ParseFloat(calc.target_size_mb)[1].v * 8192
                         - CalcTotalAudio * calc.duration[1]))
                 < calc.duration[1]

\* C16: for a positive duration and a positive finite target size the call
\* returns a value (the function of its arguments) that differs by less than
\* 1 kbps from (targetSizeMB * 8 * 1024 * 1024 / 1000 / duration)
\* - totalAudioBitrateKbps, that is from targetSizeMB * 8388.608 / duration
\* - totalAudioBitrateKbps.
C16_WithinOneOfFormula ==
    (CalcNumericCall /\ ParseFloat(calc.target_size_mb)[1].v > 0)
        => /\ calc.result[1].kind = "ok"
           /\ Abs(calc.result[1].v * 1000 * calc.duration[1] - CalcVideoBits)
                 < 1000 * calc.duration[1]

\* 1 MB in 10 s with 128 kbps of audio: 838.8608 - 128 = 710.8608, returned
\* as 710 (the 8192 formula gives 691.2).
C16_Witness ==
    /\ calc.duration = Some(10) /\ calc.target_size_mb = "1"
    /\ calc.audio_bitrate_values = <<"128">>
    /\ calc.result = Some([kind |-> "ok", v |-> 710])

\* C17: whenever totalAudioBitrateKbps * duration * 1000 exceeds
\* targetSizeMB * 8 * 1024 * 1024 the call returns a negative value.
C17_NegativeWhenAudioExceedsBudget ==
    (CalcNumericCall /\ CalcVideoBits < 0)
        => /\ calc.result[1].kind = "ok"
           /\ calc.result[1].v < 0

\* C18: the call fails with a message (return None) whenever the duration is
\* missing or not positive, the target size is not a positive finite number,
\* or the audio bitrate values are missing or not numeric.
C18_InvalidInputFails ==
    (/\ calc.result # None
     /\ \/ calc.duration = None
        \/ calc.duration[1] <= 0
        \/ ParseFloat(calc.target_size_mb) = None
        \/ ~ParseFloat(calc.target_size_mb)[1].fin
        \/ ParseFloat(calc.target_size_mb)[1].v <= 0
        \/ calc.audio_bitrate_values = <<>>
        \/ \E i \in 1..Len(calc.audio_bitrate_values) :
              ParseFloat(calc.audio_bitrate_values[i]) = None)
        => calc.result[1].kind = "none"

(***************************************************************************)
(* Claims about estimate_rf_value with a stub encoder                      *)
(***************************************************************************)
\* The estimated total size of the stub at quality 25 is exactly the target
\* (lines 754-761 on Stub25SizeAt25).
Stub25ExactAt25 ==
    /\ sampleEncoder = "stub25"
    /\ cur.duration # None
    /\ LET audio_kbps == SumSeq([k \in 1..Len(cur.values) |->
                                    ParseFloat(cur.values[k])[1].v])
           target == ParseFloat(job.target_size_mb)[1].v
       IN EstimatedTotalBytes(Stub25SizeAt25(target, audio_kbps,
                                             cur.duration[1]),
                              audio_kbps, cur.duration[1])
             = target * 1024 * 1024

\* 2^n where half the initial interval, (upper_rf - lower_rf) / 2 = 11,
\* divided by it is half the width of the interval whose midpoint is
\* returned: the loop halves the interval once per completed pass.
HalvingsAtReturn ==
    IF est.kind = "accepted" THEN 2 ^ (est.iteration - 1)
    ELSE 2 ^ est.iteration

\* C19: with such a stub the estimator makes at most 10 sample encodes, and
\* the value it returns (in hundredths) differs from 25.00 by at most the
\* bisection step reached at the iteration of the return.
C19_StubConvergesTo25 ==
    /\ est.iteration <= max_iterations
    /\ (pc = "est_returned" /\ est.ret # None /\ Stub25ExactAt25)
          => 2 * HalvingsAtReturn * Abs(est.ret[1] - 2500)
                <= 100 * (upper_rf_init - lower_rf_init)

\* Ten sample encodes outside the band: 24.99 is returned.
C19_Witness ==
    /\ pc = "est_returned" /\ Stub25ExactAt25
    /\ est.kind = "exhausted" /\ est.iteration = max_iterations
    /\ est.ret = Some(2499)

(***************************************************************************)
(* Claims about parse_handbrake_output                                     *)
(***************************************************************************)
\* The call has emitted a progress update.
ProgressUpdated ==
    parse.overall_progress # None /\ parse.current_file_progress # None

\* The line holds a digit immediately followed by a percent sign.
HasImmediatePercentToken ==
    \E i \in 1..(Len(parse.line) - 1) :
        parse.line[i] \in Digits /\ parse.line[i + 1] = "%"

\* The line holds a digit, one space and a percent sign.
HasSpacedPercentToken ==
    \E i \in 1..(Len(parse.line) - 2) :
        /\ parse.line[i] \in Digits
        /\ parse.line[i + 1] = " "
        /\ parse.line[i + 2] = "%"

\* C20 as stated: progress is updated for every line that holds a decimal or
\* integer number immediately followed by a percent sign, and for no other
\* line.
C20_UpdateIffImmediatePercent ==
    parse.called => (ProgressUpdated <=> HasImmediatePercentToken)

\* C20: progress is updated for every line that holds a decimal or integer
\* number followed by one space and a percent sign, as in "42 %" or
\* "42.50 %", and for no other line; the current-file value is the whole
\* part of the number.
C20_UpdateIffSpacedPercent ==
    parse.called
        => /\ ProgressUpdated <=> HasSpacedPercentToken
           /\ parse.overall_progress = None
                 <=> parse.current_file_progress = None

\* "x, 42.50 %" with one of two files done: current file 42, overall 71.
C20_Witness ==
    /\ parse.called
    /\ parse.line = <<"x", ",", " ", "4", "2", ".", "5", "0", " ", "%">>
    /\ parse.processed_files = 1 /\ parse.total_files = 2
    /\ parse.current_file_progress = Some(42)
    /\ parse.overall_progress = Some(71)

(***************************************************************************)
(* Claims about the progress signals                                       *)
(***************************************************************************)
\* C21: for a line read while file number parse.file is transcoded and
\* carrying the percentage p, the current-file progress emitted is the whole
\* part of p and the overall progress is the whole part of
\* (filesCompleted + p / 100) / totalFiles * 100, filesCompleted being the
\* number of files of the batch the worker has left behind.
C21_ProgressOfLine ==
    (parse.called /\ MatchedPercentage(parse.line) # None)
        => LET p == MatchedPercentage(parse.line)[1]
               filesCompleted == parse.file - 1
           IN /\ parse.current_file_progress = Some(p.whole)
              /\ parse.overall_progress =
                    Some(((filesCompleted * 100 + p.whole) * p.scale + p.frac)
                            \div (job.total_files * p.scale))

(***************************************************************************)
(* Claims about CheckMediaWorker.run                                       *)
(***************************************************************************)
\* C22 as stated: the metadata editor is run at most twice for any one file.
C22_EditorRunsAtMostTwice == check.runs <= 2

\* C22: the metadata editor is run at most four times for any one file (two
\* attempts of two runs each), and the pass comes to its end and emits
\* finished whatever the list.
C22_EditorRunsBoundedAndFinishes ==
    /\ [](check.runs <= 2 * max_attempts)
    /\ <>(check.pc = "finished")

\* Two attempts of two runs each on the last of MaxFiles files, which still
\* lacks a bitrate.
C22_Witness ==
    /\ check.runs = 4 /\ check.attempts = 2
    /\ check.n = MaxFiles /\ check.idx = MaxFiles
    /\ check.pc = "finished"

NearestEncodedCandidates ==
    {est.rf_value}
        \cup (IF est.lower_rf # lower_rf_init * RfScale
              THEN {est.lower_rf} ELSE {})
        \cup (IF est.upper_rf # upper_rf_init * RfScale
              THEN {est.upper_rf} ELSE {})

\* C24: a pass whose estimate is in the band ends the function with the
\* candidate it encoded, rounded to 2 decimals; and every value the function
\* returns is the rounding of a candidate at which a sample was encoded.
C24_ReturnsAnEncodedCandidate ==
    [][(pc = "est_loop" /\ pc' = "est_returned" /\ est'.ret # None)
         => /\ est'.kind = "accepted" => est'.ret = Some(Round2(est.rf_value))
            /\ \E rf \in NearestEncodedCandidates :
                  est'.ret = Some(Round2(rf))]_vars

(***************************************************************************)
(* The transcoder commands of one file                                     *)
(***************************************************************************)
\* A command is the list of its arguments, an option with its value kept as
\* one entry; a value is a sequence of strings (empty for a flag, folder and
\* file name for a path).
Arg(option, value) == [option |-> option, value |-> value]

VideoEncoders == {"x265", "nvenc_h264"}
hardware_encoders == {"nvenc_h264", "nvenc_h265", "nvenc_h265_10bit"}
is_hardware_encoder(selected_encoder) == selected_encoder \in hardware_encoders

Folders == {"videos", "encoded"}
FileNames == {"a.mkv"}
PresetNames == {"Fast"}
\* self.preset_files[name]: the path of the preset's file.
PresetFileOf(name) == <<"presets", name>>

\* os.path.join(self.destination_folder, os.path.basename(input_file_path)).
get_output_file_path(destination_folder, input_file_path) ==
    <<destination_folder, input_file_path[Len(input_file_path)]>>

\* ','.join(str(i + 1) for i in selected_tracks), kept as a list.
TracksOneBased(selected_tracks) ==
    [k \in 1..Len(selected_tracks) |-> StrOfInt(selected_tracks[k] + 1)]

\* The command of the sample encode (lines 709-732).
sample_command(b) ==
    <<Arg("HandBrakeCLI", <<>>),
      Arg("-i", <<b.destination_folder, "temp_sample.mkv">>),
      Arg("-o", <<b.destination_folder, "temp_encoded_sample.mkv">>),
      Arg("-e", <<b.selected_encoder>>),
      Arg("-q", <<b.rf_value>>)>>
    \o (IF b.preset_file # None /\ b.preset_name # None
        THEN <<Arg("--preset-import-file", b.preset_file[1]),
               Arg("-Z", <<b.preset_name[1]>>)>>
        ELSE <<Arg("--all-subtitles", <<>>)>>)
    \o (IF b.selected_audio_encoder \notin {"", "None"}
        THEN <<Arg("-E", <<b.selected_audio_encoder>>)>>
             \o (IF b.audio_bitrate # <<>>
                 THEN <<Arg("-B", b.audio_bitrate)>> ELSE <<>>)
        ELSE <<>>)

\* The command of the final encode (lines 398-457).
command(b) ==
    <<Arg("HandBrakeCLI", <<>>),
      Arg("-i", b.file_path),
      Arg("-o", get_output_file_path(b.destination_folder, b.file_path))>>
    \o (IF b.preset_file # None /\ b.preset_name # None
        THEN <<Arg("--preset-import-file", b.preset_file[1]),
               Arg("-Z", <<b.preset_name[1]>>)>>
        ELSE <<>>)
    \o (IF b.variable_bitrate
        THEN <<Arg("-q", <<b.rf_value>>)>>
        ELSE <<Arg("-b", <<b.video_bitrate>>)>>)
    \o (IF ~b.variable_bitrate /\ ~is_hardware_encoder(b.selected_encoder)
        THEN IF b.multi_pass
             THEN <<Arg("--multi-pass", <<>>)>>
             ELSE <<Arg("--no-multi-pass", <<>>)>>
        ELSE <<>>)
    \o (IF b.preset_name = None THEN <<Arg("--all-subtitles", <<>>)>> ELSE <<>>)
    \o (IF b.selected_encoder \notin {"", "None"}
        THEN <<Arg("-e", <<b.selected_encoder>>)>> ELSE <<>>)
    \o (IF b.selected_tracks # <<>>
        THEN <<Arg("-a", TracksOneBased(b.selected_tracks))>> ELSE <<>>)
    \o (IF /\ b.audio_bitrate # <<>>
           /\ b.selected_tracks # <<>>
           /\ b.selected_audio_encoder \notin {"copy", "None"}
        THEN <<Arg("-B", b.audio_bitrate)>> ELSE <<>>)
    \o (IF b.selected_audio_encoder \notin {"", "None"}
        THEN <<Arg("-E", <<b.selected_audio_encoder>>)>> ELSE <<>>)

\* Track selections of a file for which run reaches the command: with an
\* encoder other than 'copy' every selected track has a bitrate value and
\* some track is selected (lines 327-348, 596-607).
BuildSelections(enc, audio_bitrate) ==
    {t \in {<<>>, <<0>>, <<1>>, <<0, 1>>} :
        enc # "copy" => /\ t # <<>>
                        /\ \A k \in 1..Len(t) : t[k] < Len(audio_bitrate)}

\* A worker that has reached the commands of a file: the fields as
\* start_encoding passes them (lines 2414-2459), the file and its folder.
InitBuild ==
    /\ InitWorker(1, [target_size_mb |-> "1", audio_bitrate |-> <<>>,
                      selected_audio_encoder |-> "copy",
                      variable_bitrate |-> FALSE,
                      delete_source_files |-> "No"], <<<<0>>>>)
    /\ destFiles = {}
    /\ sampleEncoder = "stub"
    /\ GuiDuringBatch
    /\ calc = NoCalc
    /\ parse = NoParse
    /\ check = NoCheck
    /\ \E preset_name \in {None} \cup {Some(p) : p \in PresetNames},
          selected_encoder \in VideoEncoders,
          selected_audio_encoder \in GuiAudioEncoders,
          audio_bitrate \in GuiAudioBitrateTexts,
          variable_bitrate \in BOOLEAN, multi_pass \in BOOLEAN,
          folder \in Folders, name \in FileNames,
          destination_folder \in Folders :
         /\ selected_audio_encoder = "copy" <=> audio_bitrate = <<>>
         /\ \E selected_tracks \in
                  BuildSelections(selected_audio_encoder, audio_bitrate) :
              build = [preset_file |-> IF preset_name = None THEN None
                                       ELSE Some(PresetFileOf(preset_name[1])),
                       preset_name |-> preset_name,
                       selected_encoder |-> selected_encoder,
                       rf_value |-> "29.0", video_bitrate |-> "819",
                       selected_audio_encoder |-> selected_audio_encoder,
                       audio_bitrate |-> audio_bitrate,
                       selected_tracks |-> selected_tracks,
                       variable_bitrate |-> variable_bitrate,
                       multi_pass |-> multi_pass,
                       file_path |-> <<folder, name>>,
                       destination_folder |-> destination_folder,
                       sample_command |-> None, command |-> None]

\* estimate_rf_value builds the command of a sample encode (line 362 calls
\* it in variable-bitrate mode only).
BuildSampleCommand ==
    /\ build.file_path # <<>>
    /\ build.variable_bitrate
    /\ build.sample_command = None
    /\ build' = [build EXCEPT !.sample_command = Some(sample_command(build))]
    /\ UNCHANGED <<workerVars, destFiles, handled, removed, sampleEncoder,
                   calc, parse, check, guiVars>>

\* run builds the command of the final encode.
BuildCommand ==
    /\ build.file_path # <<>>
    /\ build.variable_bitrate => build.sample_command # None
    /\ build.command = None
    /\ build' = [build EXCEPT !.command = Some(command(build))]
    /\ UNCHANGED <<workerVars, destFiles, handled, removed, sampleEncoder,
                   calc, parse, check, guiVars>>

NextBuild == BuildSampleCommand \/ BuildCommand

SpecBuild == InitBuild /\ [][NextBuild]_vars

\* The arguments of a command other than the program, the two paths and the
\* quality or bitrate.
SharedArgs(c) ==
    {c[k] : k \in {j \in 1..Len(c) :
                     c[j].option \notin {"HandBrakeCLI", "-i", "-o", "-q", "-b"}}}

\* C25: the sample-encode command carries the same arguments as the final
\* command of the file, the input path, the output path and the quality or
\* bitrate apart.
C25_SampleCommandMatchesFinal ==
    (build.sample_command # None /\ build.command # None)
        => SharedArgs(build.sample_command[1]) = SharedArgs(build.command[1])

\* The value of an option of a command that carries it.
ValueOf(c, option) ==
    (CHOOSE a \in {c[k] : k \in 1..Len(c)} : a.option = option).value

\* C30: the output path of the final command differs from its input path,
\* whatever the destination folder, the folder of the source included.
C30_OutputDiffersFromInput ==
    build.command # None
        => ValueOf(build.command[1], "-o") # ValueOf(build.command[1], "-i")

(***************************************************************************)
(* Claims about the repair of a file                                       *)
(***************************************************************************)
\* A step of run that makes a repair attempt (a call of update_duration).
IsRepairAttempt == check'.calls = check.calls + 1

\* The message a step of run adds about the file in work, if any.
NewReport ==
    IF Len(check'.reports) = Len(check.reports) + 1
    THEN Some(check'.reports[Len(check'.reports)].kind)
    ELSE None

InitShared ==
    /\ \E n \in 1..MaxFiles, variable_bitrate \in BOOLEAN :
         InitWorker(n, [target_size_mb |-> "1",
                        audio_bitrate |-> <<"128">>,
                        selected_audio_encoder |-> "av_aac",
                        variable_bitrate |-> variable_bitrate,
                        delete_source_files |-> "No"],
                    [i \in 1..n |-> <<0>>])
    /\ destFiles = {}
    /\ sampleEncoder = "stub"
    /\ calc = NoCalc
    /\ parse = NoParse
    /\ check = NoCheck
    /\ build = NoBuild
    /\ GuiDuringBatch

\* The file a drop adds during the batch.
DroppedFile == job.total_files + 1

\* delete_selected_media (lines 2617-2625) while the worker runs:
\* self.media_files.remove(media_dict) takes the entry out of the list the
\* worker enumerates.
DeleteFromSharedList ==
    /\ pc # "finished"
    /\ \E k \in 1..Len(media_files) : media_files' = RemoveAt(media_files, k)
    /\ UNCHANGED <<job, pc, idx, processed_files, cur, est, cmd, last,
                   progressVars, delete_file_signal, destFiles, handled,
                   removed, sampleEncoder, callVars, guiVars>>

\* add_media_files_incrementally (line 2176) while the worker runs:
\* self.media_files.append(media) extends the list the worker enumerates.
AppendToSharedList ==
    /\ pc # "finished"
    /\ \A k \in 1..Len(media_files) : media_files[k] # DroppedFile
    /\ media_files' = Append(media_files, DroppedFile)
    /\ UNCHANGED <<job, pc, idx, processed_files, cur, est, cmd, last,
                   progressVars, delete_file_signal, destFiles, handled,
                   removed, sampleEncoder, callVars, guiVars>>

NextShared ==
    \/ RunNext
    \/ DeleteFromSharedList
    \/ AppendToSharedList

\* Encode batches during which the window's list changes.
SpecShared == InitShared /\ [][NextShared]_vars

\* C27: the worker takes the files of the list as it was when
\* start_encoding ran, in that order and each with its own track list: the
\* file taken at place i is the file that stood at place i, a place of the
\* track lists, and run ends only after the last of them, whatever is added
\* or deleted meanwhile.
C27_BatchIsSnapshot ==
    /\ [][idx' = idx + 1
            => /\ idx' <= Len(job.selected_audio_tracks)
               /\ media_files[idx'] = idx']_vars
    /\ [][(pc # "finished" /\ pc' = "finished")
            => idx = job.total_files]_vars

(***************************************************************************)
(* Claims about the validation of the window and the checks of the worker  *)
(***************************************************************************)
\* What lines 305-336 of run come to for file k of a batch started from the
\* window as it stands (the inspector answering for a copied track).
AudioCheckOf(k) ==
    AudioBitrateOf(audio_encoder_combo, audio_bitrate_input,
                   [i \in 1..Len(gui_media_files) |->
                       gui_media_files[i].selected_audio_tracks],
                   k, Some(192))

\* File k fails an audio configuration check of the worker: one of the
\* three messages of lines 324, 334 and 339, or an empty list of values, on
\* which calculate_video_bitrate reports that the values are missing (lines
\* 605-607).
FailsAudioChecks(k) ==
    \/ AudioCheckOf(k).kind \in
          {"no_audio_bitrate", "invalid_audio_bitrate", "mismatch"}
    \/ AudioCheckOf(k).kind = "ok" /\ AudioCheckOf(k).values = <<>>

\* C28: while the start button is enabled, no file of the list fails an
\* audio configuration check of the worker.
C28_ValidatedBatchPassesAudioChecks ==
    start_encoding_btn
        => \A k \in 1..Len(gui_media_files) : ~FailsAudioChecks(k)

(***************************************************************************)
(* Batches whose transcoders report ordered percentages                    *)
(***************************************************************************)
\* p <= q for two percentages whole + frac / scale.
PercentageLeq(p, q) ==
    (p.whole * p.scale + p.frac) * q.scale
        <= (q.whole * q.scale + q.frac) * p.scale

\* The line carries a percentage of at most 100 that is not below the one
\* of the line read before it from the same transcoder.
InRangeAndOrdered(line) ==
    /\ MatchedPercentage(line) # None
    /\ PercentageLeq(MatchedPercentage(line)[1],
                     [whole |-> 100, frac |-> 0, scale |-> 1])
    /\ (parse.called /\ parse.file = idx)
          => PercentageLeq(MatchedPercentage(parse.line)[1],
                           MatchedPercentage(line)[1])

\* A pass of the read loop on such a line.
ReadOrderedProgressLine(line) ==
    /\ InRangeAndOrdered(line)
    /\ ReadProgressLine(line)

NextOrdered ==
    \/ Next
    \/ \E line \in OutputLines : ReadOrderedProgressLine(line)

SpecOrdered == InitProgress /\ [][NextOrdered]_vars

\* C29: the values emitted on overall_progress lie in 0..100 and never
\* decrease, and 100 is emitted before the forced emission of the end of
\* run only when every file of the batch was taken and none was skipped
\* before its transcoder stage.
C29_OverallProgressMonotone ==
    /\ [](overall_progress # None => overall_progress[1] \in 0..100)
    /\ [][overall_progress # None
            => /\ overall_progress' # None
               /\ overall_progress'[1] >= overall_progress[1]]_vars
    /\ []((overall_progress = Some(100) /\ pc # "finished")
            => /\ idx = job.total_files
               /\ processed_files = IF pc = "loop" THEN idx ELSE idx - 1)

\* The last of MaxFiles files at 100 %, after a line of a lower percentage,
\* with the overall progress at 100 before the end of run.
C29_Witness ==
    /\ pc = "transcoding"
    /\ job.total_files = MaxFiles /\ idx = MaxFiles
    /\ overall_progress = Some(100)
    /\ current_file_progress = Some(100)
    /\ parse.file = idx

====
